---- MODULE Spec2Model ----
(***************************************************************************)
(* Bouldering league dashboard (src/main.js): the aggregation and awards   *)
(* pipeline, the leaderboard ranker, the table sort handler and AppState.  *)
(*                                                                         *)
(* JavaScript values are modelled as tagged records so that the loose      *)
(* comparisons of the source (== 1, == 0, x || 0, parseInt) are computed   *)
(* as the language computes them.  Maps are sequences of entries in        *)
(* insertion order (the order Map.forEach visits them).                    *)
(***************************************************************************)
EXTENDS Integers, Sequences, FiniteSets, TLC

VARIABLES
    pc,             \* which specification is running and where it stands
    rawTeams,       \* AppState.rawTeams
    rawResults,     \* AppState.rawResults
    currentFilter,  \* AppState.currentFilter
    climberStats,   \* AppState.climberStats
    teamStats,      \* AppState.teamStats
    divisionStats,  \* AppState.divisionStats
    funStats,       \* AppState.funStats
    threw,          \* the last pipeline run ended in an uncaught exception
    result,         \* input row of computePoints
    points,         \* value returned by computePoints
    data,           \* input list of sortLeaderboard
    sorted,         \* list returned by sortLeaderboard
    tables,         \* DOM: rows of each leaderboard <tbody>, in display order
    rendered,       \* rows of each leaderboard as the last render appended them
    sortClass,      \* DOM: which header carries sort-asc / sort-desc, per table
    sortState,      \* AppState.sortState
    sortingInitialized, \* DOM: table.dataset.sortingInitialized, per table
    inflight,       \* calls of initialize that await loadAllData
    loads,          \* the calls of loadAllData: both fetches and what became of the call
    errorDisplay,   \* DOM: the error-display element
    objects,        \* the Map and Object instances the cache has held, by identity
    refs            \* which instance each cache field of AppState refers to

vars == <<pc, rawTeams, rawResults, currentFilter, climberStats, teamStats,
          divisionStats, funStats, threw, result, points, data, sorted,
          tables, rendered, sortClass, sortState, sortingInitialized, inflight,
          loads, errorDisplay, objects, refs>>

appVars == <<rawTeams, rawResults, currentFilter, climberStats, teamStats,
             divisionStats, funStats, threw>>
pointVars == <<result, points>>
sortVars == <<data, sorted>>
loadVars == <<loads, errorDisplay>>
heapVars == <<objects, refs>>
domVars == <<tables, rendered, sortClass, sortState, sortingInitialized, inflight,
             loadVars, heapVars>>

----------------------------------------------------------------------------
(* JavaScript values *)

Num(n) == [t |-> "number", n |-> n]
Str(s) == [t |-> "string", s |-> s]
Bool(b) == [t |-> "boolean", b |-> b]
Undef == [t |-> "undefined"]

\* The number NaN; every other number of the model is an integer.
NaN == -1000000

\* StringToNumber on the strings of the model: surrounding white space is
\* ignored, the empty string is 0, a decimal literal is its value, anything
\* else is NaN.
StringToNumber(s) ==
    CASE s = "" -> 0
      [] s = "0" -> 0
      [] s = "1" -> 1
      [] s = "01" -> 1
      [] s = "1.0" -> 1
      [] s = "2" -> 2
      [] s = "3" -> 3
      [] s = "4" -> 4
      [] OTHER -> NaN

\* ToNumber of a JavaScript value.
ToNumber(v) ==
    CASE v.t = "number" -> v.n
      [] v.t = "string" -> StringToNumber(v.s)
      [] v.t = "boolean" -> IF v.b THEN 1 ELSE 0
      [] OTHER -> NaN

\* v == n for a number literal n: undefined is loosely equal only to null and
\* undefined; every other value is converted with ToNumber; NaN equals nothing.
LooseEq(v, n) ==
    /\ v.t # "undefined"
    /\ ToNumber(v) # NaN
    /\ ToNumber(v) = n

\* ToBoolean of a JavaScript value.
Truthy(v) ==
    CASE v.t = "number" -> v.n # 0 /\ v.n # NaN
      [] v.t = "string" -> v.s # ""
      [] v.t = "boolean" -> v.b
      [] OTHER -> FALSE

\* parseInt on a string of the model: the longest prefix that is an integer
\* literal, NaN when there is none.
ParseIntString(s) ==
    CASE s = "0" -> 0
      [] s = "1" -> 1
      [] s = "01" -> 1
      [] s = "1.0" -> 1
      [] s = "2" -> 2
      [] s = "3" -> 3
      [] s = "4" -> 4
      [] OTHER -> NaN

\* parseInt(v || 0)
ParseIntOrZero(v) ==
    IF ~Truthy(v) THEN 0
    ELSE CASE v.t = "number" -> v.n
           [] v.t = "string" -> ParseIntString(v.s)
           [] OTHER -> NaN

\* a + b and a - b on numbers
Plus(a, b) == IF a = NaN \/ b = NaN THEN NaN ELSE a + b
Minus(a, b) == IF a = NaN \/ b = NaN THEN NaN ELSE a - b

\* a > b and a < b on numbers: false when either is NaN
Gt(a, b) == a # NaN /\ b # NaN /\ a > b
Lt(a, b) == a # NaN /\ b # NaN /\ a < b

\* a === b and a !== b on numbers: NaN is different from everything
StrictEq(a, b) == a # NaN /\ b # NaN /\ a = b
StrictNe(a, b) == ~StrictEq(a, b)

----------------------------------------------------------------------------
(* Sequences *)

\* Array.prototype.filter
Filter(s, Test(_)) == SelectSeq(s, Test)

\* number of elements of s that pass Test
Count(s, Test(_)) == Len(SelectSeq(s, Test))

\* Array.prototype.sort with a comparator: the sort is stable, so with a
\* consistent comparator the result is the one an insertion sort produces.
\* A comparator result of NaN counts as 0.
InsertSorted(s, x, Cmp(_, _)) ==
    LET Before(j) == LET c == Cmp(s[j], x) IN c = NaN \/ c <= 0
        ps == {j \in 1..Len(s) : Before(j)}
        p == IF ps = {} THEN 0 ELSE CHOOSE j \in ps : \A k \in ps : k <= j
    IN SubSeq(s, 1, p) \o <<x>> \o SubSeq(s, p + 1, Len(s))

Sort(s, Cmp(_, _)) ==
    LET F[i \in 0..Len(s)] ==
            IF i = 0 THEN <<>> ELSE InsertSorted(F[i - 1], s[i], Cmp)
    IN F[Len(s)]

\* Array.prototype.join(' & ') on a list of strings
RECURSIVE JoinAmp(_)
JoinAmp(names) ==
    IF Len(names) = 0 THEN ""
    ELSE IF Len(names) = 1 THEN names[1]
    ELSE names[1] \o " & " \o JoinAmp(Tail(names))

----------------------------------------------------------------------------
(* Scoring and aggregation *)

\* computePoints(result)
computePointsStrict(r) ==
    (IF r.zone_completed = Num(1) THEN 50 ELSE 0)
    + (IF r.top_completed = Num(1) THEN 50 ELSE 0)

computePoints(r) ==
    (IF LooseEq(r.zone_completed, 1) THEN 50 ELSE 0)
    + (IF LooseEq(r.top_completed, 1) THEN 50 ELSE 0)

\* parseInt(result.attempts_to_zone || 0) + parseInt(result.attempts_to_top || 0)
rowAttempts(r) ==
    Plus(ParseIntOrZero(r.attempts_to_zone), ParseIntOrZero(r.attempts_to_top))

\* position of the entry of a Map (a sequence of entries) whose field key is k;
\* 0 when the Map has no such key
IndexOfKey(m, key, k) ==
    IF \E i \in 1..Len(m) : m[i][key] = k
    THEN CHOOSE i \in 1..Len(m) : m[i][key] = k /\ \A j \in 1..(i - 1) : m[j][key] # k
    ELSE 0

HasKey(m, key, k) == \E i \in 1..Len(m) : m[i][key] = k

seedClimberStatsPerRow(teams) ==
    [i \in 1..Len(teams) |->
        [climber_id |-> teams[i].climber_id,
         climber_name |-> teams[i].climber_name,
         team_id |-> teams[i].team_id,
         team_name |-> teams[i].team_name,
         division |-> teams[i].division,
         total_points |-> 0,
         total_attempts |-> 0,
         comp_breakdown |-> <<>>]]

\* the seeded, all-zero ClimberStats entries: one per distinct climber_id of the
\* roster, first row wins
seedClimberStats(teams) ==
    LET F[i \in 0..Len(teams)] ==
            IF i = 0 THEN <<>>
            ELSE LET prev == F[i - 1] IN IF HasKey(prev, "climber_id", teams[i].climber_id)
                 THEN prev
                 ELSE Append(prev,
                        [climber_id |-> teams[i].climber_id,
                         climber_name |-> teams[i].climber_name,
                         team_id |-> teams[i].team_id,
                         team_name |-> teams[i].team_name,
                         division |-> teams[i].division,
                         total_points |-> 0,
                         total_attempts |-> 0,
                         comp_breakdown |-> <<>>])
    IN F[Len(teams)]

\* one result folded into a comp_breakdown Map
addToBreakdown(bd, compId, pts, att) ==
    LET b == IF HasKey(bd, "comp_id", compId) THEN bd
             ELSE Append(bd, [comp_id |-> compId, points |-> 0, attempts |-> 0])
    IN [i \in 1..Len(b) |->
          IF b[i].comp_id = compId
          THEN [b[i] EXCEPT !.points = Plus(@, pts), !.attempts = Plus(@, att)]
          ELSE b[i]]

foldResultCreditAll(stats, r) ==
    [i \in 1..Len(stats) |->
        IF stats[i].climber_id = r.climber_id \/ ~HasKey(stats, "climber_id", r.climber_id)
        THEN [stats[i] EXCEPT
                !.total_points = Plus(@, computePoints(r)),
                !.total_attempts = Plus(@, rowAttempts(r)),
                !.comp_breakdown =
                    addToBreakdown(@, r.comp_id, computePoints(r), rowAttempts(r))]
        ELSE stats[i]]

\* the body of the forEach over the filtered results
foldResult(stats, r) ==
    IF ~HasKey(stats, "climber_id", r.climber_id) THEN stats
    ELSE [i \in 1..Len(stats) |->
            IF stats[i].climber_id = r.climber_id
            THEN [stats[i] EXCEPT
                    !.total_points = Plus(@, computePoints(r)),
                    !.total_attempts = Plus(@, rowAttempts(r)),
                    !.comp_breakdown =
                        addToBreakdown(@, r.comp_id, computePoints(r), rowAttempts(r))]
            ELSE stats[i]]

\* aggregateClimberStats(teams, results, filterCompId); filterCompId "" stands
\* for the omitted (null) argument, which like "" is falsy
aggregateClimberStats(teams, results, filterCompId) ==
    LET filteredResults ==
            IF filterCompId # ""
            THEN Filter(results, LAMBDA r : r.comp_id = filterCompId)
            ELSE results
        F[i \in 0..Len(filteredResults)] ==
            IF i = 0 THEN seedClimberStats(teams)
            ELSE foldResult(F[i - 1], filteredResults[i])
    IN F[Len(filteredResults)]

\* the team entries seeded from the roster: one per distinct team_id in roster
\* order, each with its distinct climber_ids in roster order
seedTeamStats(teams) ==
    LET F[i \in 0..Len(teams)] ==
            IF i = 0 THEN <<>>
            ELSE LET prev == F[i - 1]
                     withTeam ==
                         IF HasKey(prev, "team_id", teams[i].team_id) THEN prev
                         ELSE Append(prev,
                                [team_id |-> teams[i].team_id,
                                 team_name |-> teams[i].team_name,
                                 total_points |-> 0,
                                 total_attempts |-> 0,
                                 climbers |-> <<>>])
                 IN [j \in 1..Len(withTeam) |->
                       IF withTeam[j].team_id = teams[i].team_id
                          /\ ~\E k \in 1..Len(withTeam[j].climbers) :
                                  withTeam[j].climbers[k] = teams[i].climber_id
                       THEN [withTeam[j] EXCEPT
                               !.climbers = Append(@, teams[i].climber_id)]
                       ELSE withTeam[j]]
    IN F[Len(teams)]

\* aggregateTeamStats(climberStats, teams)
aggregateTeamStats(cs, teams) ==
    LET F[i \in 0..Len(cs)] ==
            IF i = 0 THEN seedTeamStats(teams)
            ELSE LET prev == F[i - 1] IN [j \in 1..Len(prev) |->
                    IF prev[j].team_id = cs[i].team_id
                    THEN [prev[j] EXCEPT
                            !.total_points = Plus(@, cs[i].total_points),
                            !.total_attempts = Plus(@, cs[i].total_attempts)]
                    ELSE prev[j]]
    IN F[Len(cs)]

\* the keys aggregateDivisionStats sets before grouping
Divisions == {"Beginner", "Intermediate", "Advanced"}

\* every division that occurs gets a list of its own
aggregateDivisionStatsAnyDivision(cs) ==
    [d \in Divisions \cup {cs[i].division : i \in 1..Len(cs)} |->
        Filter(cs, LAMBDA c : c.division = d)]

\* aggregateDivisionStats(climberStats, teams)
aggregateDivisionStats(cs) ==
    [d \in Divisions |-> Filter(cs, LAMBDA c : c.division = d)]

\* filterByComp(results, compId)
filterByComp(results, compId) ==
    IF compId = "all" THEN results
    ELSE Filter(results, LAMBDA r : r.comp_id = compId)

----------------------------------------------------------------------------
(* Awards *)

Null == [kind |-> "null"]

\* the TypeError raised by reading a property of undefined
TypeError == [kind |-> "TypeError"]

\* Most Attempts (Team)
mostAttemptsTeam(ts) ==
    LET F[i \in 0..Len(ts)] ==
            IF i = 0 THEN [maxAttempts |-> -1, maxTeam |-> 0]
            ELSE LET prev == F[i - 1] IN IF Gt(ts[i].total_attempts, prev.maxAttempts)
                 THEN [maxAttempts |-> ts[i].total_attempts, maxTeam |-> i]
                 ELSE prev
        best == F[Len(ts)].maxTeam
    IN IF Len(ts) > 0 /\ best # 0
       THEN [team_name |-> ts[best].team_name, attempts |-> ts[best].total_attempts]
       ELSE Null

\* the boulderAttempts Map: summed attempts per `${comp_id}:${boulder_id}` key
boulderAttempts(results) ==
    LET F[i \in 0..Len(results)] ==
            IF i = 0 THEN <<>>
            ELSE LET prev == F[i - 1] IN LET k == results[i].comp_id \o ":" \o results[i].boulder_id
                     m == IF HasKey(prev, "key", k) THEN prev
                          ELSE Append(prev,
                                 [key |-> k,
                                  comp_id |-> results[i].comp_id,
                                  boulder_id |-> results[i].boulder_id,
                                  attempts |-> 0])
                 IN [j \in 1..Len(m) |->
                       IF m[j].key = k
                       THEN [m[j] EXCEPT !.attempts = Plus(@, rowAttempts(results[i]))]
                       ELSE m[j]]
    IN F[Len(results)]

\* Most Attempts (Boulder)
mostAttemptsBoulder(results) ==
    LET ba == boulderAttempts(results)
        F[i \in 0..Len(ba)] ==
            IF i = 0 THEN [max |-> -1, idx |-> 0]
            ELSE LET prev == F[i - 1] IN IF Gt(ba[i].attempts, prev.max)
                 THEN [max |-> ba[i].attempts, idx |-> i]
                 ELSE prev
        best == F[Len(ba)].idx
    IN IF Len(results) > 0 /\ best # 0
       THEN [boulder_id |-> ba[best].boulder_id, comp_id |-> ba[best].comp_id,
             attempts |-> ba[best].attempts]
       ELSE Null

\* Least Attempts (Boulder); min 0 with idx 0 stands for Infinity
leastAttemptsBoulder(results) ==
    LET ba == boulderAttempts(results)
        F[i \in 0..Len(ba)] ==
            IF i = 0 THEN [min |-> 0, idx |-> 0]
            ELSE LET prev == F[i - 1] IN IF Gt(ba[i].attempts, 0)
                    /\ (prev.idx = 0 \/ Lt(ba[i].attempts, prev.min))
                 THEN [min |-> ba[i].attempts, idx |-> i]
                 ELSE prev
        best == F[Len(ba)].idx
    IN IF Len(results) > 0 /\ best # 0
       THEN [boulder_id |-> ba[best].boulder_id, comp_id |-> ba[best].comp_id,
             attempts |-> ba[best].attempts]
       ELSE Null

tryHardCmpFewestTops(a, b) ==
    IF StrictNe(a.attempts, b.attempts) THEN Minus(b.attempts, a.attempts)
    ELSE a.tops - b.tops

\* Try Hard comparator: most attempts first, then most tops
tryHardCmp(a, b) ==
    IF StrictNe(a.attempts, b.attempts) THEN Minus(b.attempts, a.attempts)
    ELSE b.tops - a.tops

\* Try Hard
tryHardAward(results, cs) ==
    LET Tops(c) == Count(results, LAMBDA r : r.climber_id = c.climber_id
                                             /\ LooseEq(r.top_completed, 1))
        withTops == Filter(cs, LAMBDA c : Tops(c) > 0)
        candidates == Sort([i \in 1..Len(withTops) |->
                              [climber_name |-> withTops[i].climber_name,
                               attempts |-> withTops[i].total_attempts,
                               tops |-> Tops(withTops[i])]], tryHardCmp)
        winners == Filter(candidates,
                          LAMBDA c : StrictEq(c.attempts, candidates[1].attempts)
                                     /\ c.tops = candidates[1].tops)
    IN IF Len(cs) > 0 /\ Len(candidates) > 0
       THEN IF Len(winners) = 1 THEN winners[1]
            ELSE IF Len(winners) = 0 THEN TypeError  \* winners[0] is undefined
            ELSE [climber_name |-> JoinAmp([i \in 1..Len(winners) |-> winners[i].climber_name]),
                  attempts |-> winners[1].attempts,
                  tops |-> winners[1].tops,
                  is_tie |-> TRUE]
       ELSE Null

\* a Map climber_id -> number of rows that pass Test, keys in order of first
\* passing row
countByClimber(results, Test(_)) ==
    LET F[i \in 0..Len(results)] ==
            IF i = 0 THEN <<>>
            ELSE LET prev == F[i - 1] IN IF ~Test(results[i]) THEN prev
            ELSE IF HasKey(prev, "climber_id", results[i].climber_id)
                 THEN [j \in 1..Len(prev) |->
                         IF prev[j].climber_id = results[i].climber_id
                         THEN [prev[j] EXCEPT !.count = @ + 1]
                         ELSE prev[j]]
                 ELSE Append(prev, [climber_id |-> results[i].climber_id, count |-> 1])
    IN F[Len(results)]

\* the largest count of a counting Map, 0 when it is empty
maxCount(counts) ==
    IF Len(counts) = 0 THEN 0
    ELSE CHOOSE n \in {counts[i].count : i \in 1..Len(counts)} :
            \A i \in 1..Len(counts) : counts[i].count <= n

attemptsDescCmp(a, b) == Minus(b.attempts, a.attempts)

\* comparator of Flash Master, Perfect Score and Zone Hero: fewest attempts first
attemptsAscCmp(a, b) == Minus(a.attempts, b.attempts)

\* the candidates of a counting award (Flash Master, Zone Hero): the climbers
\* of the counting Map with the largest count that climberStats knows, fewest
\* attempts first
countCandidates(counts, cs) ==
    LET sel == Filter(counts, LAMBDA e : e.count = maxCount(counts)
                                         /\ HasKey(cs, "climber_id", e.climber_id))
    IN Sort([i \in 1..Len(sel) |->
               LET climber == cs[IndexOfKey(cs, "climber_id", sel[i].climber_id)]
               IN [climber_name |-> climber.climber_name,
                   count |-> sel[i].count,
                   attempts |-> climber.total_attempts]], attemptsAscCmp)

countWinnersFirstOnly(candidates) == <<candidates[1]>>

\* the winners of a counting award: the candidates with candidates[0].attempts
countWinners(candidates) ==
    Filter(candidates, LAMBDA c : StrictEq(c.attempts, candidates[1].attempts))

isFlash(r) == LooseEq(r.top_completed, 1) /\ LooseEq(r.attempts_to_top, 1)

\* Flash Master without the guards on results.length, climberStats.size and
\* maxFlashes
flashMasterUnguarded(results, cs) ==
    IF Len(countCandidates(countByClimber(results, isFlash), cs)) = 0 THEN TypeError
    ELSE [climber_name |-> countCandidates(countByClimber(results, isFlash), cs)[1].climber_name,
          flashes |-> countCandidates(countByClimber(results, isFlash), cs)[1].count,
          attempts |-> countCandidates(countByClimber(results, isFlash), cs)[1].attempts]

\* Flash Master
flashMaster(results, cs) ==
    LET counts == countByClimber(results, isFlash)
        candidates == countCandidates(counts, cs)
        winners == countWinners(candidates)
    IN IF Len(results) > 0 /\ Len(cs) > 0 /\ maxCount(counts) > 0
       THEN IF Len(candidates) = 0 THEN TypeError  \* candidates[0] is undefined
            ELSE IF Len(winners) = 1
                 THEN [climber_name |-> winners[1].climber_name,
                       flashes |-> winners[1].count,
                       attempts |-> winners[1].attempts]
                 ELSE IF Len(winners) = 0 THEN TypeError  \* winners[0] is undefined
                 ELSE [climber_name |-> JoinAmp([i \in 1..Len(winners) |-> winners[i].climber_name]),
                       flashes |-> winners[1].count,
                       attempts |-> winners[1].attempts,
                       is_tie |-> TRUE]
       ELSE Null

isZoneOnly(r) == LooseEq(r.zone_completed, 1) /\ LooseEq(r.top_completed, 0)

\* Zone Hero
zoneHero(results, cs) ==
    LET counts == countByClimber(results, isZoneOnly)
        candidates == countCandidates(counts, cs)
        winners == countWinners(candidates)
    IN IF Len(results) > 0 /\ Len(cs) > 0 /\ maxCount(counts) > 0
       THEN IF Len(candidates) = 0 THEN TypeError  \* candidates[0] is undefined
            ELSE IF Len(winners) = 1
                 THEN [climber_name |-> winners[1].climber_name,
                       zones |-> winners[1].count,
                       attempts |-> winners[1].attempts]
                 ELSE IF Len(winners) = 0 THEN TypeError  \* winners[0] is undefined
                 ELSE [climber_name |-> JoinAmp([i \in 1..Len(winners) |-> winners[i].climber_name]),
                       zones |-> winners[1].count,
                       attempts |-> winners[1].attempts,
                       is_tie |-> TRUE]
       ELSE Null

RECURSIVE Gcd(_, _)
Gcd(a, b) == IF b = 0 THEN a ELSE Gcd(b, a % b)

\* total_points / total_attempts for total_attempts > 0: the quotient is kept
\* as a fraction in lowest terms
Divide(p, a) == [num |-> p \div Gcd(p, a), den |-> a \div Gcd(p, a)]

\* b.ratio - a.ratio has the sign of:
ratioDescCmp(a, b) == b.ratio.num * a.ratio.den - a.ratio.num * b.ratio.den

withinToleranceExact(r, best) == r.num * best.den = best.num * r.den

\* Math.abs(c.ratio - bestRatio) < 0.001
withinTolerance(r, best) ==
    LET d == r.num * best.den - best.num * r.den
    IN 1000 * (IF d < 0 THEN -d ELSE d) < r.den * best.den

\* ratio.toFixed(2), kept as a number of hundredths (ties round up)
toFixed2(r) == (200 * r.num + r.den) \div (2 * r.den)

\* Efficiency King
efficiencyKing(cs) ==
    LET eligible == Filter(cs, LAMBDA c : Gt(c.total_attempts, 0))
        candidates ==
            Sort([i \in 1..Len(eligible) |->
                    [climber_name |-> eligible[i].climber_name,
                     ratio |-> Divide(eligible[i].total_points,
                                      eligible[i].total_attempts)]],
                 ratioDescCmp)
        winners == Filter(candidates,
                          LAMBDA c : withinTolerance(c.ratio, candidates[1].ratio))
    IN IF Len(cs) > 0 /\ Len(candidates) > 0
       THEN IF Len(winners) = 1
            THEN [climber_name |-> winners[1].climber_name,
                  ratio |-> toFixed2(winners[1].ratio)]
            ELSE [climber_name |-> JoinAmp([i \in 1..Len(winners) |-> winners[i].climber_name]),
                  ratio |-> toFixed2(winners[1].ratio),
                  is_tie |-> TRUE]
       ELSE Null

\* the compClimberTops Map: topped rows per `${compId}:${climberId}` key
compClimberTops(results) ==
    LET F[i \in 0..Len(results)] ==
            IF i = 0 THEN <<>>
            ELSE LET prev == F[i - 1] IN IF ~LooseEq(results[i].top_completed, 1) THEN prev
            ELSE LET k == results[i].comp_id \o ":" \o results[i].climber_id
                     m == IF HasKey(prev, "key", k) THEN prev
                          ELSE Append(prev,
                                 [key |-> k,
                                  climberId |-> results[i].climber_id,
                                  compId |-> results[i].comp_id,
                                  tops |-> 0])
                 IN [j \in 1..Len(m) |->
                       IF m[j].key = k THEN [m[j] EXCEPT !.tops = @ + 1] ELSE m[j]]
    IN F[Len(results)]

\* compBoulderCounts.get(compId).size: the distinct boulder_ids of a competition
totalBoulders(results, compId) ==
    Cardinality({results[i].boulder_id :
                    i \in {j \in 1..Len(results) : results[j].comp_id = compId}})

\* the reduce over climberCompResults
sumAttempts(rows) ==
    LET F[i \in 0..Len(rows)] ==
            IF i = 0 THEN 0 ELSE Plus(F[i - 1], rowAttempts(rows[i]))
    IN F[Len(rows)]

\* the entries of compClimberTops whose tops equal the number of distinct
\* boulders of their competition and whose climber climberStats knows
perfectEntries(results, cs, cct) ==
    Filter(cct, LAMBDA d : d.tops = totalBoulders(results, d.compId)
                           /\ totalBoulders(results, d.compId) > 0
                           /\ HasKey(cs, "climber_id", d.climberId))

\* the records pushed to perfectScoresByComp, in the order they are pushed
perfectRecords(results, cs, qual) ==
    [i \in 1..Len(qual) |->
        [climber_name |-> cs[IndexOfKey(cs, "climber_id", qual[i].climberId)].climber_name,
         climber_id |-> qual[i].climberId,
         comp_id |-> qual[i].compId,
         boulders |-> totalBoulders(results, qual[i].compId),
         attempts |->
             sumAttempts(Filter(results,
                 LAMBDA r : r.climber_id = qual[i].climberId
                            /\ r.comp_id = qual[i].compId))]]

\* perfectScoresByComp flattened: the records grouped by competition, the
\* competitions in the order perfectScoresByComp got them
flattenByComp(scores) ==
    LET firstOfComp(i) == \A j \in 1..(i - 1) : scores[j].comp_id # scores[i].comp_id
        G[i \in 0..Len(scores)] ==
            IF i = 0 THEN <<>>
            ELSE IF firstOfComp(i)
                 THEN G[i - 1] \o Filter(scores, LAMBDA w : w.comp_id = scores[i].comp_id)
                 ELSE G[i - 1]
    IN G[Len(scores)]

\* allPerfectScores before it is sorted
allPerfectScores(results, cs) ==
    flattenByComp(perfectRecords(results, cs,
                      perfectEntries(results, cs, compClimberTops(results))))

\* the award for the sorted allPerfectScores and its overallWinners
perfectAward(all, overallWinners) ==
    IF Len(overallWinners) = 1
    THEN [climber_name |-> overallWinners[1].climber_name,
          climber_id |-> overallWinners[1].climber_id,
          comp_id |-> overallWinners[1].comp_id,
          boulders |-> overallWinners[1].boulders,
          attempts |-> overallWinners[1].attempts,
          other_comps_count |-> Len(all) - 1]
    ELSE IF Len(overallWinners) = 0 THEN TypeError  \* overallWinners[0] is undefined
    ELSE IF Cardinality({overallWinners[i].comp_id : i \in 1..Len(overallWinners)}) = 1
    THEN [climber_name |->
              JoinAmp([i \in 1..Len(overallWinners) |-> overallWinners[i].climber_name]),
          comp_id |-> overallWinners[1].comp_id,
          boulders |-> overallWinners[1].boulders,
          attempts |-> overallWinners[1].attempts,
          is_tie |-> TRUE,
          winner_count |-> Len(overallWinners),
          other_comps_count |-> Len(all) - Len(overallWinners)]
    ELSE [climber_name |->
              JoinAmp([i \in 1..Len(overallWinners) |->
                         overallWinners[i].climber_name \o " (Comp "
                         \o overallWinners[i].comp_id \o ")"]),
          comp_id |-> "Multiple",
          boulders |-> overallWinners[1].boulders,
          attempts |-> overallWinners[1].attempts,
          is_tie |-> TRUE,
          winner_count |-> Len(overallWinners),
          other_comps_count |-> Len(all) - Len(overallWinners)]

\* the award for allPerfectScores sorted by attempts
perfectOverall(all) ==
    IF Len(all) > 0
    THEN perfectAward(all, Filter(all, LAMBDA w : StrictEq(w.attempts, all[1].attempts)))
    ELSE Null

\* Perfect Score
perfectScore(results, cs) ==
    IF Len(results) > 0 /\ Len(cs) > 0
    THEN perfectOverall(Sort(allPerfectScores(results, cs), attemptsAscCmp))
    ELSE Null

\* computeFunStats(results, climberStats, teamStats, filterCompId); the value
\* TypeError stands for the call ending in that exception
computeFunStats(results, cs, ts) ==
    LET tryHard == tryHardAward(results, cs)
        flash == flashMaster(results, cs)
        perfect == perfectScore(results, cs)
        zone == zoneHero(results, cs)
    IN IF TypeError \in {tryHard, flash, perfect, zone} THEN TypeError
       ELSE [most_attempts_team |-> mostAttemptsTeam(ts),
             most_attempts_boulder |-> mostAttemptsBoulder(results),
             least_attempts_boulder |-> leastAttemptsBoulder(results),
             try_hard_award |-> tryHard,
             flash_master |-> flash,
             efficiency_king |-> efficiencyKing(cs),
             perfect_score |-> perfect,
             zone_hero |-> zone]

----------------------------------------------------------------------------
(* Leaderboard ranking *)

\* String.prototype.toLowerCase on the names of the model
toLowerCase(s) ==
    CASE s = "Amy" -> "amy"
      [] s = "Zed" -> "zed"
      [] s = "Bob" -> "bob"
      [] s = "Alpha" -> "alpha"
      [] s = "Beta" -> "beta"
      [] s = "Beginner" -> "beginner"
      [] s = "Advanced" -> "advanced"
      [] s = "Open" -> "open"
      [] OTHER -> s

\* the lower-case names of the model in collation (alphabetical) order
Collation == <<"advanced", "alpha", "amy", "beginner", "beta", "bob", "open", "zed">>

\* a.localeCompare(b) on lower-case names
localeCompare(a, b) ==
    (CHOOSE i \in 1..Len(Collation) : Collation[i] = a)
    - (CHOOSE i \in 1..Len(Collation) : Collation[i] = b)

\* compareText(a, b)
compareText(a, b) == localeCompare(toLowerCase(a), toLowerCase(b))

\* the comparator of sortLeaderboard
leaderboardCmpAttemptsDesc(a, b, nameKey) ==
    IF StrictNe(a.total_points, b.total_points)
    THEN Minus(b.total_points, a.total_points)
    ELSE IF StrictNe(a.total_attempts, b.total_attempts)
    THEN Minus(b.total_attempts, a.total_attempts)
    ELSE compareText(a[nameKey], b[nameKey])

leaderboardCmp(a, b, nameKey) ==
    IF StrictNe(a.total_points, b.total_points)
    THEN Minus(b.total_points, a.total_points)
    ELSE IF StrictNe(a.total_attempts, b.total_attempts)
    THEN Minus(a.total_attempts, b.total_attempts)
    ELSE compareText(a[nameKey], b[nameKey])

\* sortLeaderboard(data, nameKey): sorts a copy
sortLeaderboard(items, nameKey) ==
    Sort(items, LAMBDA a, b : leaderboardCmp(a, b, nameKey))

----------------------------------------------------------------------------
(* State shared by the specifications *)

EmptyMap == [k \in {} |-> <<>>]
EmptyObject == [k \in {} |-> Null]

\* all sequences over S of length at most n
SeqsUpTo(S, n) == UNION {[1..k -> S] : k \in 0..n}

\* AppState as the object literal builds it
InitAppState ==
    /\ rawTeams = <<>>
    /\ rawResults = <<>>
    /\ currentFilter = "all"
    /\ climberStats = <<>>
    /\ teamStats = <<>>
    /\ divisionStats = EmptyMap
    /\ funStats = EmptyObject
    /\ threw = FALSE

NoPoints == result = Null /\ points = 0
NoSort == data = <<>> /\ sorted = Null

\* the ids of the leaderboard tables
TableIds == {"team-leaderboard", "individual-leaderboard"}

\* sortState as the object literal and clearState set it
NoSortState == [table |-> "null", column |-> "null", direction |-> "asc"]

\* the error-display element while hidden (hideError)
NoError == [kind |-> "hidden"]

\* no call of loadAllData followed, the error display hidden
NoLoads == loads = <<>> /\ errorDisplay = NoError

\* the identities of the cache structures not followed
NoHeap == objects = <<>> /\ refs = Null

\* the leaderboard tables of the page before the first render
InitDom ==
    /\ tables = [t \in TableIds |-> <<>>]
    /\ rendered = [t \in TableIds |-> <<>>]
    /\ sortClass = [t \in TableIds |-> Null]
    /\ sortState = NoSortState
    /\ sortingInitialized = [t \in TableIds |-> FALSE]
    /\ inflight = 0
    /\ NoLoads /\ NoHeap

----------------------------------------------------------------------------
(* computePoints on one result row *)

\* the values zone_completed and top_completed range over
FlagValues ==
    {Num(1), Str("1"), Num(0), Str("0"), Str(""), Undef,
     Str("01"), Str("1.0"), Str("yes"), Num(2), Bool(TRUE)}

ResultRow(comp, boulder, climber, az, at, zone, top) ==
    [comp_id |-> comp, boulder_id |-> boulder, climber_id |-> climber,
     attempts_to_zone |-> az, attempts_to_top |-> at,
     zone_completed |-> zone, top_completed |-> top]

InitPoints ==
    /\ pc = "points:input"
    /\ result \in {ResultRow("1", "b1", "C1", Str("1"), Str("1"), z, t) :
                      z \in FlagValues, t \in FlagValues}
    /\ points = 0
    /\ InitAppState /\ NoSort /\ InitDom

ComputePoints ==
    /\ pc = "points:input"
    /\ points' = computePoints(result)
    /\ pc' = "points:done"
    /\ UNCHANGED <<result, appVars, sortVars, domVars>>

SpecPoints == InitPoints /\ [][ComputePoints]_vars

\* C1 as stated: a flag counts exactly when it is the number 1 or the string
\* "1"; computePoints returns 50 for each flag that counts.
C1_AsStated ==
    pc = "points:done" =>
        /\ points = (IF result.zone_completed \in {Num(1), Str("1")} THEN 50 ELSE 0)
                    + (IF result.top_completed \in {Num(1), Str("1")} THEN 50 ELSE 0)
        /\ points \in {0, 50, 100}

\* the values of the model that JavaScript's == finds equal to 1
LooselyOne == {Num(1), Str("1"), Str("01"), Str("1.0"), Bool(TRUE)}

\* C1 amended: computePoints returns 50 for each of zone_completed and
\* top_completed that is loosely equal to 1 (the number 1, true, or a string
\* that reads as the number 1 such as "1", "01", "1.0") and 0 for every other
\* value; the result is always 0, 50 or 100.
C1_LooseOnePoints ==
    pc = "points:done" =>
        /\ points = (IF result.zone_completed \in LooselyOne THEN 50 ELSE 0)
                    + (IF result.top_completed \in LooselyOne THEN 50 ELSE 0)
        /\ points \in {0, 50, 100}

C1_Witness ==
    /\ pc = "points:done"
    /\ result.zone_completed = Str("01")
    /\ result.top_completed = Str("1")
    /\ points = 100

----------------------------------------------------------------------------
(* sortLeaderboard on one list *)

MaxItems == 3

\* the items sortLeaderboard is given: stats entries of teams or climbers
LeaderboardItems ==
    {[climber_name |-> n, team_name |-> "Alpha", total_points |-> p, total_attempts |-> a] :
        n \in {"Zed", "Amy", "amy"}, p \in {0, 50}, a \in {1, 2}}
    \cup
    {[climber_name |-> "Bob", team_name |-> tn, total_points |-> 50, total_attempts |-> 2] :
        tn \in {"Beta", "alpha"}}

InitSort ==
    /\ pc = "sort:input"
    /\ data \in SeqsUpTo(LeaderboardItems, MaxItems)
    /\ sorted = Null
    /\ InitAppState /\ NoPoints /\ InitDom

SortLeaderboard ==
    /\ pc = "sort:input"
    /\ \E nameKey \in {"climber_name", "team_name"} :
          sorted' = [nameKey |-> nameKey, list |-> sortLeaderboard(data, nameKey)]
    /\ pc' = "sort:done"
    /\ UNCHANGED <<data, appVars, pointVars, domVars>>

SpecSort == InitSort /\ [][SortLeaderboard]_vars

\* s and t hold the same elements the same number of times
IsPermutation(s, t) ==
    /\ Len(s) = Len(t)
    /\ \A x \in {s[i] : i \in 1..Len(s)} \cup {t[i] : i \in 1..Len(t)} :
          Cardinality({i \in 1..Len(s) : s[i] = x})
          = Cardinality({i \in 1..Len(t) : t[i] = x})

\* a may stand before b on a leaderboard ranked by nameKey
RanksBefore(a, b, nameKey) ==
    \/ a.total_points > b.total_points
    \/ a.total_points = b.total_points /\ a.total_attempts < b.total_attempts
    \/ /\ a.total_points = b.total_points
       /\ a.total_attempts = b.total_attempts
       /\ compareText(a[nameKey], b[nameKey]) <= 0

\* C4: sortLeaderboard returns a permutation of its input ordered by points
\* descending, then attempts ascending, then name ascending ignoring case, and
\* leaves the input list as it was.
C4_SortLeaderboard ==
    [][pc' = "sort:done" =>
         /\ data' = data
         /\ IsPermutation(sorted'.list, data)
         /\ \A i, j \in 1..Len(sorted'.list) :
               i < j => RanksBefore(sorted'.list[i], sorted'.list[j], sorted'.nameKey)]_vars

C4_Witness ==
    /\ pc = "sort:done"
    /\ sorted.nameKey = "climber_name"
    /\ Len(data) = 3
    /\ data[1].climber_name = "Zed" /\ data[2].climber_name = "Amy"
    /\ data[1].total_points = data[2].total_points
    /\ data[1].total_attempts = data[2].total_attempts
    /\ data[3].total_points > data[1].total_points
    /\ sorted.list = <<data[3], data[2], data[1]>>

----------------------------------------------------------------------------
(* The pipeline of computeAllStats on one roster and one result list *)

\* computeFunStats is handed the raw results instead of the filtered ones
pipelineFunStatsUnfiltered(teams, results, filter) ==
    LET cs == aggregateClimberStats(teams, filterByComp(results, filter), "")
        ts == aggregateTeamStats(cs, teams)
    IN [filteredResults |-> filterByComp(results, filter),
        climberStats |-> cs,
        teamStats |-> ts,
        divisionStats |-> aggregateDivisionStats(cs),
        funStats |-> computeFunStats(results, cs, ts)]

\* what one run of computeAllStats computes; funStats is TypeError when
\* computeFunStats ends in that exception
pipeline(teams, results, filter) ==
    LET filteredResults == filterByComp(results, filter)
        cs == aggregateClimberStats(teams, filteredResults, "")
        ts == aggregateTeamStats(cs, teams)
    IN [filteredResults |-> filteredResults,
        climberStats |-> cs,
        teamStats |-> ts,
        divisionStats |-> aggregateDivisionStats(cs),
        funStats |-> computeFunStats(filteredResults, cs, ts)]

\* AppState.computeAllStats(): the four assignments in order; an exception in
\* computeFunStats leaves funStats as it was and propagates to the caller
computeAllStats ==
    \E r \in {pipeline(rawTeams, rawResults, currentFilter)} :
       /\ climberStats' = r.climberStats
       /\ teamStats' = r.teamStats
       /\ divisionStats' = r.divisionStats
       /\ funStats' = IF r.funStats = TypeError THEN funStats ELSE r.funStats
       /\ threw' = (r.funStats = TypeError)

TeamName(t) == IF t = "T1" THEN "Alpha" ELSE "Beta"
ClimberName(c) == CASE c = "C1" -> "Zed" [] c = "C2" -> "Amy" [] OTHER -> "Bob"
DivisionOf(c) == CASE c = "C1" -> "Beginner" [] c = "C2" -> "Advanced" [] OTHER -> "Open"

TeamRow(t, c) ==
    [team_id |-> t, team_name |-> TeamName(t), climber_id |-> c,
     climber_name |-> ClimberName(c), division |-> DivisionOf(c)]

\* result rows as parseCsv yields them: every field a string
Topped(comp, boulder, climber, attempts) ==
    ResultRow(comp, boulder, climber, Str("1"), Str(attempts), Str("1"), Str("1"))
ZoneOnly(comp, boulder, climber) ==
    ResultRow(comp, boulder, climber, Str("2"), Str("0"), Str("1"), Str("0"))

RunPipeline ==
    /\ pc = "pipe:input"
    /\ computeAllStats
    /\ pc' = "pipe:done"
    /\ UNCHANGED <<rawTeams, rawResults, currentFilter, pointVars, sortVars, domVars>>

InitPipeline(rosters, resultLists, filters) ==
    /\ pc = "pipe:input"
    /\ rawTeams \in rosters
    /\ rawResults \in resultLists
    /\ currentFilter \in filters
    /\ climberStats = <<>>
    /\ teamStats = <<>>
    /\ divisionStats = EmptyMap
    /\ funStats = EmptyObject
    /\ threw = FALSE
    /\ NoPoints /\ NoSort /\ InitDom

MaxRoster == 2
MaxAggResults == 2

AggRosterRows == {TeamRow(t, c) : t \in {"T1", "T2"}, c \in {"C1", "C2"}}
AggResultRows ==
    {Topped("1", "b1", "C1", "2"), Topped("2", "b1", "C1", "2"), ZoneOnly("1", "b1", "C1"),
     Topped("1", "b1", "C2", "2"), Topped("2", "b1", "C2", "2"), Topped("1", "b1", "C9", "2")}

\* rosters (also with a climber listed twice or under two teams) and results
\* (also of unregistered climbers), under the filters "all" and "1"
SpecAgg ==
    InitPipeline(SeqsUpTo(AggRosterRows, MaxRoster),
                 SeqsUpTo(AggResultRows, MaxAggResults), {"all", "1"})
    /\ [][RunPipeline]_vars

\* the set of values of a sequence
Range(s) == {s[i] : i \in 1..Len(s)}

\* the sum of f over the finite set S of indices
RECURSIVE SumOver(_, _)
SumOver(S, f) ==
    IF S = {} THEN 0
    ELSE LET x == CHOOSE y \in S : TRUE IN f[x] + SumOver(S \ {x}, f)

\* the rows of the raw results the current filter lets through
PassesFilter(r) == currentFilter = "all" \/ r.comp_id = currentFilter

\* C2: climberStats has exactly one entry per distinct climber_id of the roster
\* and no other; a roster climber without a result after filtering has zero
\* points, zero attempts and an empty comp_breakdown.
C2_OneEntryPerClimber ==
    pc = "pipe:done" =>
        /\ {climberStats[i].climber_id : i \in 1..Len(climberStats)}
           = {rawTeams[i].climber_id : i \in 1..Len(rawTeams)}
        /\ \A i, j \in 1..Len(climberStats) :
              climberStats[i].climber_id = climberStats[j].climber_id => i = j
        /\ \A i \in 1..Len(climberStats) :
              (~\E k \in 1..Len(rawResults) :
                    /\ PassesFilter(rawResults[k])
                    /\ rawResults[k].climber_id = climberStats[i].climber_id)
              => /\ climberStats[i].total_points = 0
                 /\ climberStats[i].total_attempts = 0
                 /\ climberStats[i].comp_breakdown = <<>>

C2_Witness ==
    /\ pc = "pipe:done"
    /\ Len(rawTeams) = 2 /\ rawTeams[1].climber_id = "C1" /\ rawTeams[2].climber_id = "C1"
    /\ currentFilter = "1"
    /\ Len(rawResults) = 1 /\ rawResults[1].climber_id = "C1" /\ rawResults[1].comp_id = "2"
    /\ Len(climberStats) = 1
    /\ climberStats[1].total_points = 0

\* C3: each team's total_points is the sum of the total_points of the
\* climberStats entries of the climbers in its climbers list, and likewise for
\* total_attempts, also when a climber_id is listed under more than one team.
C3_TeamTotalsAreMemberSums ==
    pc = "pipe:done" =>
        \A t \in 1..Len(teamStats) :
            LET members == {i \in 1..Len(climberStats) :
                               climberStats[i].climber_id \in Range(teamStats[t].climbers)}
            IN /\ teamStats[t].total_points
                    = SumOver(members, [i \in members |-> climberStats[i].total_points])
               /\ teamStats[t].total_attempts
                    = SumOver(members, [i \in members |-> climberStats[i].total_attempts])

----------------------------------------------------------------------------
(* Awards on rosters with and without the climbers of the results *)

MaxResults == 3

\* the roster rows of the award specifications: one team, climbers in order
Roster(climbers) == [i \in 1..Len(climbers) |-> TeamRow("T1", climbers[i])]

\* flashes, tops on the second attempt and zone-only results, of two roster
\* climbers and of C9, who is in no roster
FlashResultRows ==
    {Topped("1", "b1", c, "1") : c \in {"C1", "C2", "C9"}}
    \cup {Topped("1", "b1", c, "2") : c \in {"C1", "C2", "C9"}}
    \cup {ZoneOnly("1", "b1", c) : c \in {"C1", "C2", "C9"}}

SpecFlash ==
    InitPipeline({Roster(<<"C1">>), Roster(<<"C1", "C2">>)},
                 SeqsUpTo(FlashResultRows, MaxResults), {"all"})
    /\ [][RunPipeline]_vars

\* the awards of FunStats
Awards ==
    {"most_attempts_team", "most_attempts_boulder", "least_attempts_boulder",
     "try_hard_award", "flash_master", "efficiency_king", "perfect_score", "zone_hero"}

\* C6: computeFunStats never throws and returns null or a record for each of
\* the eight awards, also when rows reference a climber_id that is not in the
\* roster.
C6_NeverThrows ==
    pc = "pipe:done" =>
        /\ ~threw
        /\ DOMAIN funStats = Awards

\* the indices of the raw result rows the current filter lets through
FilteredRows == {i \in 1..Len(rawResults) : PassesFilter(rawResults[i])}

\* all enumerations of the finite set S
Perms(S) ==
    {f \in [1..Cardinality(S) -> S] : \A i, j \in 1..Cardinality(S) : f[i] = f[j] => i = j}

\* the strings that join the labels of the elements of S in some order
JoinedInSomeOrder(S, Label(_)) ==
    {JoinAmp([i \in 1..Cardinality(S) |-> Label(f[i])]) : f \in Perms(S)}

\* the name the roster gives climber c
NameOf(c) == climberStats[IndexOfKey(climberStats, "climber_id", c)].climber_name

RosterClimbers == {climberStats[i].climber_id : i \in 1..Len(climberStats)}

FlashesOf(c) ==
    Cardinality({i \in FilteredRows :
                    /\ rawResults[i].climber_id = c
                    /\ rawResults[i].top_completed \in LooselyOne
                    /\ rawResults[i].attempts_to_top \in LooselyOne})

ResultClimbers == {rawResults[i].climber_id : i \in FilteredRows}

\* C10: Flash Master is non-null exactly when some result is a flash (topped,
\* attempts_to_top 1); it then names exactly the climbers with the most flashes
\* and, among those, the fewest total attempts, and reports that flash count.
C10_FlashMaster ==
    pc = "pipe:done" =>
        /\ ~threw
        /\ LET a == funStats.flash_master
               most == {c \in ResultClimbers :
                           \A d \in ResultClimbers : FlashesOf(d) <= FlashesOf(c)}
               named == {c \in most \cap RosterClimbers :
                           \A d \in most \cap RosterClimbers :
                              climberStats[IndexOfKey(climberStats, "climber_id", c)].total_attempts
                              <= climberStats[IndexOfKey(climberStats, "climber_id", d)].total_attempts}
           IN /\ a # Null <=> \E c \in ResultClimbers : FlashesOf(c) > 0
              /\ a # Null =>
                    /\ most \subseteq RosterClimbers
                    /\ a.climber_name \in JoinedInSomeOrder(named, NameOf)
                    /\ \A c \in named : a.flashes = FlashesOf(c)

----------------------------------------------------------------------------
(* Perfect Score on results of two competitions *)

\* tops (in 2 or 3 attempts, so none is a flash) on the two boulders of
\* competition 1 and the one boulder of competition 2
PerfectResultRows ==
    {Topped(s[1], s[2], c, at) :
        s \in {<<"1", "b1">>, <<"1", "b2">>, <<"2", "b1">>},
        c \in {"C1", "C2"}, at \in {"2", "3"}}

SpecPerfect ==
    InitPipeline({Roster(<<"C1", "C2">>), Roster(<<"C1">>)},
                 SeqsUpTo(PerfectResultRows, MaxResults), {"all"})
    /\ [][RunPipeline]_vars

CompsOfResults == {rawResults[i].comp_id : i \in FilteredRows}

BouldersIn(k) == {rawResults[i].boulder_id : i \in {j \in FilteredRows : rawResults[j].comp_id = k}}

RowsOf(c, k) ==
    {i \in FilteredRows : rawResults[i].climber_id = c /\ rawResults[i].comp_id = k}

ToppedRowsOf(c, k) == {i \in RowsOf(c, k) : rawResults[i].top_completed \in LooselyOne}

\* climber c has a topped result for every boulder of competition k
ToppedEveryBoulder(c, k) ==
    /\ BouldersIn(k) # {}
    /\ \A b \in BouldersIn(k) : \E i \in ToppedRowsOf(c, k) : rawResults[i].boulder_id = b

PlainName(p) == NameOf(p[1])
AnnotatedName(p) == NameOf(p[1]) \o " (Comp " \o p[2] \o ")"

\* award a names exactly the (climber, competition) pairs of W
NamesPairs(a, W) ==
    IF a.comp_id = "Multiple"
    THEN a.climber_name \in JoinedInSomeOrder(W, AnnotatedName)
    ELSE /\ \A p \in W : p[2] = a.comp_id
         /\ a.climber_name \in JoinedInSomeOrder(W, PlainName)

\* C7: every climber named in the perfect_score award has, in the competition
\* credited, a topped result for every distinct boulder of that competition.
C7_PerfectMeansEveryBoulder ==
    pc = "pipe:done" /\ ~threw /\ funStats.perfect_score # Null =>
        \E W \in SUBSET {p \in RosterClimbers \X CompsOfResults : ToppedEveryBoulder(p[1], p[2])} :
            W # {} /\ NamesPairs(funStats.perfect_score, W)

\* the qualifying pairs: a roster climber and a competition in which the
\* climber's topped results number as many as the competition's distinct boulders
Pool ==
    {p \in RosterClimbers \X CompsOfResults :
        /\ Cardinality(ToppedRowsOf(p[1], p[2])) = Cardinality(BouldersIn(p[2]))
        /\ Cardinality(BouldersIn(p[2])) > 0}

AttemptsIn(p) ==
    SumOver(RowsOf(p[1], p[2]), [i \in RowsOf(p[1], p[2]) |-> rowAttempts(rawResults[i])])

PoolWinners == {p \in Pool : \A q \in Pool : AttemptsIn(p) <= AttemptsIn(q)}

----------------------------------------------------------------------------
(* computeFunStats on climber totals that make close ratios *)

MaxClimbers == 3

\* total_points (a multiple of 50) and total_attempts of a climber: the ratios
\* 1.998, 2.000 and 2.0005, climbers without attempts, and two plain ratios
EfficiencyTotals ==
    {[points |-> 49950, attempts |-> 25000],
     [points |-> 50, attempts |-> 25],
     [points |-> 200050, attempts |-> 100000],
     [points |-> 0, attempts |-> 0],
     [points |-> 50, attempts |-> 0],
     [points |-> 100, attempts |-> 3],
     [points |-> 0, attempts |-> 5]}

ClimberIds == <<"C1", "C2", "C3", "C4">>

InitEfficiency ==
    /\ pc = "fun:input"
    /\ rawTeams = <<>>
    /\ rawResults = <<>>
    /\ currentFilter = "all"
    /\ \E totals \in SeqsUpTo(EfficiencyTotals, MaxClimbers) :
          climberStats =
              [i \in 1..Len(totals) |->
                  [climber_id |-> ClimberIds[i],
                   climber_name |-> ClimberName(ClimberIds[i]),
                   team_id |-> "T1",
                   team_name |-> TeamName("T1"),
                   division |-> DivisionOf(ClimberIds[i]),
                   total_points |-> totals[i].points,
                   total_attempts |-> totals[i].attempts,
                   comp_breakdown |-> <<>>]]
    /\ teamStats = <<>>
    /\ divisionStats = EmptyMap
    /\ funStats = EmptyObject
    /\ threw = FALSE
    /\ NoPoints /\ NoSort /\ InitDom

ComputeFunStats ==
    /\ pc = "fun:input"
    /\ \E fs \in {computeFunStats(rawResults, climberStats, teamStats)} :
          /\ funStats' = IF fs = TypeError THEN funStats ELSE fs
          /\ threw' = (fs = TypeError)
    /\ pc' = "fun:done"
    /\ UNCHANGED <<rawTeams, rawResults, currentFilter, climberStats, teamStats,
                   divisionStats, pointVars, sortVars, domVars>>

SpecEfficiency == InitEfficiency /\ [][ComputeFunStats]_vars

Abs(x) == IF x < 0 THEN -x ELSE x

\* C9: Efficiency King considers exactly the climbers with total_attempts > 0,
\* takes the largest total_points / total_attempts as the best ratio and
\* reports exactly the climbers whose ratio is less than 0.001 away from it;
\* it is null when no climber has attempts.
C9_EfficiencyKing ==
    pc = "fun:done" =>
        /\ ~threw
        /\ LET a == funStats.efficiency_king
               ratio(i) == Divide(climberStats[i].total_points, climberStats[i].total_attempts)
               P(i) == ratio(i).num
               A(i) == ratio(i).den
               eligible == {i \in 1..Len(climberStats) : climberStats[i].total_attempts > 0}
               best == {i \in eligible : \A j \in eligible : P(i) * A(j) >= P(j) * A(i)}
               winners == {i \in eligible :
                             \E b \in best :
                                1000 * Abs(P(i) * A(b) - P(b) * A(i)) < A(i) * A(b)}
               NameAt(i) == climberStats[i].climber_name
           IN /\ a = Null <=> eligible = {}
              /\ a # Null => a.climber_name \in JoinedInSomeOrder(winners, NameAt)

\* ratios 1.998, 2.000 and 2.0005: the last two are reported, the first is not
C9_Witness ==
    /\ pc = "fun:done"
    /\ Len(climberStats) = 3
    /\ climberStats[1].total_points = 49950 /\ climberStats[1].total_attempts = 25000
    /\ climberStats[2].total_points = 50 /\ climberStats[2].total_attempts = 25
    /\ climberStats[3].total_points = 200050 /\ climberStats[3].total_attempts = 100000
    /\ funStats.efficiency_king.climber_name = "Bob & Amy"

----------------------------------------------------------------------------
(* The page: AppState, the leaderboard tables and their sort handlers *)

\* textContent of a cell: the decimal text of a number, or a name
NumText(n) == [numeric |-> TRUE, n |-> n]
NameText(s) == [numeric |-> FALSE, s |-> s]

\* parseFloat(cell.textContent.trim())
parseFloat(cell) == IF cell.numeric THEN cell.n ELSE NaN

\* the rows renderTeamLeaderboard appends
renderTeamLeaderboard(ts) ==
    LET sortedTeams == sortLeaderboard(ts, "team_name")
    IN [i \in 1..Len(sortedTeams) |->
          [rank |-> NumText(i),
           name |-> NameText(sortedTeams[i].team_name),
           points |-> NumText(sortedTeams[i].total_points),
           attempts |-> NumText(sortedTeams[i].total_attempts)]]

\* the rows renderIndividualLeaderboard appends
renderIndividualLeaderboard(cs) ==
    LET sortedClimbers == sortLeaderboard(cs, "climber_name")
    IN [i \in 1..Len(sortedClimbers) |->
          [rank |-> NumText(i),
           name |-> NameText(sortedClimbers[i].climber_name),
           team |-> NameText(sortedClimbers[i].team_name),
           division |-> NameText(sortedClimbers[i].division),
           points |-> NumText(sortedClimbers[i].total_points),
           attempts |-> NumText(sortedClimbers[i].total_attempts)]]

\* the columns of a table whose header may carry data-sort
Columns(t) ==
    IF t = "team-leaderboard" THEN {"rank", "name", "points", "attempts"}
    ELSE {"rank", "name", "division", "points"}

\* the comparator of the click handler on column col
rowCmp(rowA, rowB, col, direction) ==
    LET numA == parseFloat(rowA[col])
        numB == parseFloat(rowB[col])
        comparison == IF numA # NaN /\ numB # NaN THEN numA - numB
                      ELSE compareText(rowA[col].s, rowB[col].s)
    IN IF direction = "asc" THEN comparison ELSE -comparison

sortRowsRenumbered(rows, col, direction) ==
    LET s == Sort(rows, LAMBDA a, b : rowCmp(a, b, col, direction))
    IN [i \in 1..Len(s) |-> [s[i] EXCEPT !.rank = NumText(i)]]

\* rows.sort(...) and the re-append of the sorted rows to the tbody
sortRows(rows, col, direction) ==
    Sort(rows, LAMBDA a, b : rowCmp(a, b, col, direction))

\* AppState.renderAll() on the team and the individual leaderboard: each tbody
\* is emptied and refilled, and the first render attaches the sort handlers
renderAll(cs, ts) ==
    /\ tables' = [t \in TableIds |->
                    IF t = "team-leaderboard" THEN renderTeamLeaderboard(ts)
                    ELSE renderIndividualLeaderboard(cs)]
    /\ rendered' = tables'
    /\ sortingInitialized' = [t \in TableIds |-> TRUE]

\* bound on the calls of initialize that wait for their data at one time
MaxLoads == 1

\* the rosters and result lists the data source may serve
TeamsFiles ==
    {<<TeamRow("T1", "C1"), TeamRow("T2", "C2")>>,
     <<TeamRow("T1", "C1"), TeamRow("T1", "C2"), TeamRow("T2", "C3")>>}
ResultsFiles ==
    {<<Topped("1", "b1", "C1", "2"), ZoneOnly("1", "b1", "C2"), Topped("2", "b1", "C2", "3")>>,
     <<Topped("1", "b1", "C2", "1"), Topped("2", "b1", "C9", "1")>>}

\* the values of the competition filter dropdown
FilterValues == {"all", "1", "2"}

\* the page after DOMContentLoaded: handlers attached, initialize() called and
\* waiting for its data
Init ==
    /\ pc = "app"
    /\ InitAppState
    /\ NoPoints /\ NoSort
    /\ tables = [t \in TableIds |-> <<>>]
    /\ rendered = [t \in TableIds |-> <<>>]
    /\ sortClass = [t \in TableIds |-> Null]
    /\ sortState = NoSortState
    /\ sortingInitialized = [t \in TableIds |-> FALSE]
    /\ inflight = 1
    /\ NoLoads /\ NoHeap

\* initialize() resumes with the data of loadAllData: stores it, recomputes and
\* renders; an exception from computeAllStats is caught and shown, and the
\* render is skipped
LoadSucceeds ==
    /\ pc = "app" /\ inflight > 0
    /\ \E teams \in TeamsFiles, results \in ResultsFiles :
          \E r \in {pipeline(teams, results, currentFilter)} :
             /\ rawTeams' = teams
             /\ rawResults' = results
             /\ climberStats' = r.climberStats
             /\ teamStats' = r.teamStats
             /\ divisionStats' = r.divisionStats
             /\ funStats' = IF r.funStats = TypeError THEN funStats ELSE r.funStats
             /\ threw' = (r.funStats = TypeError)
             /\ IF r.funStats = TypeError
                THEN UNCHANGED <<tables, rendered, sortingInitialized>>
                ELSE renderAll(r.climberStats, r.teamStats)
    /\ inflight' = inflight - 1
    /\ UNCHANGED <<pc, currentFilter, sortClass, sortState, pointVars, sortVars,
                   loadVars, heapVars>>

\* loadAllData rejects (fetch error, empty file, missing column): initialize
\* shows the error and changes nothing else
LoadFails ==
    /\ pc = "app" /\ inflight > 0
    /\ inflight' = inflight - 1
    /\ UNCHANGED <<pc, appVars, tables, rendered, sortClass, sortState,
                   sortingInitialized, pointVars, sortVars, loadVars, heapVars>>

\* AppState.applyFilter(compId), from the change handler of the dropdown; an
\* exception from computeAllStats leaves the handler before renderAll
ApplyFilter ==
    /\ pc = "app"
    /\ \E compId \in FilterValues :
          \E r \in {pipeline(rawTeams, rawResults, compId)} :
             /\ currentFilter' = compId
             /\ climberStats' = r.climberStats
             /\ teamStats' = r.teamStats
             /\ divisionStats' = r.divisionStats
             /\ funStats' = IF r.funStats = TypeError THEN funStats ELSE r.funStats
             /\ threw' = (r.funStats = TypeError)
             /\ IF r.funStats = TypeError
                THEN UNCHANGED <<tables, rendered, sortingInitialized>>
                ELSE renderAll(r.climberStats, r.teamStats)
    /\ UNCHANGED <<pc, rawTeams, rawResults, sortClass, sortState, inflight,
                   pointVars, sortVars, loadVars, heapVars>>

\* AppState.refresh(), from the reload button: clearState(), then initialize()
\* up to its await
Refresh ==
    /\ pc = "app" /\ inflight < MaxLoads
    /\ rawTeams' = <<>>
    /\ rawResults' = <<>>
    /\ climberStats' = <<>>
    /\ teamStats' = <<>>
    /\ divisionStats' = EmptyMap
    /\ funStats' = EmptyObject
    /\ currentFilter' = "all"
    /\ sortState' = NoSortState
    /\ inflight' = inflight + 1
    /\ UNCHANGED <<pc, threw, tables, rendered, sortClass, sortingInitialized,
                   pointVars, sortVars, loadVars, heapVars>>

\* a click on the header of column col of table t, once setupSorting has
\* attached the handlers
HeaderClick ==
    /\ pc = "app"
    /\ \E t \in TableIds : \E col \in Columns(t) :
          /\ sortingInitialized[t]
          /\ LET direction ==
                  IF sortClass[t] = [column |-> col, direction |-> "asc"]
                  THEN "desc" ELSE "asc"
             IN /\ sortClass' = [sortClass EXCEPT ![t] = [column |-> col, direction |-> direction]]
                /\ sortState' = [table |-> t, column |-> col, direction |-> direction]
                /\ tables' = [tables EXCEPT ![t] = sortRows(@, col, direction)]
    /\ UNCHANGED <<pc, appVars, rendered, sortingInitialized, inflight, pointVars,
                   sortVars, loadVars, heapVars>>

Next == LoadSucceeds \/ LoadFails \/ ApplyFilter \/ Refresh \/ HeaderClick

Spec == Init /\ [][Next]_vars

\* C5: between two renders the header clicks only permute the rows of a
\* leaderboard: every row keeps the rank the render gave it (its 1-based
\* position in sortLeaderboard order) and no row is added, removed or
\* renumbered.
C5_RankStaysWithRow ==
    \A t \in TableIds :
        /\ IsPermutation(tables[t], rendered[t])
        /\ \A i \in 1..Len(rendered[t]) : rendered[t][i].rank = NumText(i)
        /\ \A i, j \in 1..Len(rendered[t]) :
              i < j =>
                \/ rendered[t][i].points.n > rendered[t][j].points.n
                \/ /\ rendered[t][i].points.n = rendered[t][j].points.n
                   /\ t = "team-leaderboard" =>
                         rendered[t][i].attempts.n <= rendered[t][j].attempts.n

\* a click has moved the row ranked 2 to the top of the team leaderboard
C5_Witness ==
    /\ Len(tables["team-leaderboard"]) = 2
    /\ tables["team-leaderboard"][1].rank = NumText(2)
    /\ tables["team-leaderboard"][2].rank = NumText(1)
    /\ sortClass["team-leaderboard"] # Null
    /\ sortClass["team-leaderboard"].column # "rank"

----------------------------------------------------------------------------
(* Zone Hero on completion flags of every kind *)

MaxZoneResults == 2

\* the values of top_completed in the Zone Hero rows: topped, not topped
\* (0, empty), and values that are neither 1 nor 0
ZoneTopValues == {Str("1"), Str("0"), Str(""), Str("2"), Str("yes")}

\* results of the two roster climbers on one boulder, one attempt at the zone
ZoneResultRows ==
    {ResultRow("1", "b1", c, Str("1"), Str("0"), zone, top) :
        c \in {"C1", "C2"}, zone \in {Str("1"), Str("0")}, top \in ZoneTopValues}

SpecZone ==
    InitPipeline({Roster(<<"C1", "C2">>)},
                 SeqsUpTo(ZoneResultRows, MaxZoneResults), {"all"})
    /\ [][RunPipeline]_vars

\* a flag is true when it is the number 1 or the string "1"
FlagTrue(v) == v \in {Num(1), Str("1")}

ZoneOnlyOf(c) ==
    Cardinality({i \in FilteredRows :
                    /\ rawResults[i].climber_id = c
                    /\ FlagTrue(rawResults[i].zone_completed)
                    /\ ~FlagTrue(rawResults[i].top_completed)})

TotalAttemptsOf(c) ==
    climberStats[IndexOfKey(climberStats, "climber_id", c)].total_attempts

\* C11: Zone Hero counts per climber the results with zone_completed true and
\* top_completed false (true: 1 or "1"; false: anything else); it is non-null
\* exactly when such a result exists, and then names exactly the climbers with
\* the most such results and, among those, the fewest total attempts.
C11_ZoneHero ==
    pc = "pipe:done" =>
        /\ ~threw
        /\ LET a == funStats.zone_hero
               most == {c \in ResultClimbers :
                           \A d \in ResultClimbers : ZoneOnlyOf(d) <= ZoneOnlyOf(c)}
               named == {c \in most \cap RosterClimbers :
                           \A d \in most \cap RosterClimbers :
                              TotalAttemptsOf(c) <= TotalAttemptsOf(d)}
           IN /\ a # Null <=> \E c \in ResultClimbers : ZoneOnlyOf(c) > 0
              /\ a # Null =>
                    /\ most \subseteq RosterClimbers
                    /\ a.climber_name \in JoinedInSomeOrder(named, NameOf)
                    /\ \A c \in named : a.zones = ZoneOnlyOf(c)

----------------------------------------------------------------------------
(* Try Hard on tops of roster climbers and of a climber in no roster *)

MaxTryResults == 3

\* a result without zone and top, after three attempts at the zone
Failed(comp, boulder, climber) ==
    ResultRow(comp, boulder, climber, Str("3"), Str("0"), Str("0"), Str("0"))

\* tops of the roster climbers on the first and on the third attempt, a top of
\* C9 (in no roster), a top in a second competition, and results without a top
TryHardResultRows ==
    {Topped("1", "b1", c, at) : c \in {"C1", "C2"}, at \in {"1", "3"}}
    \cup {Topped("1", "b2", "C9", "3"), Topped("2", "b1", "C1", "3"),
          Failed("1", "b2", "C1"), Failed("1", "b2", "C2")}

SpecTryHard ==
    InitPipeline({Roster(<<"C1", "C2">>), Roster(<<"C2", "C1">>)},
                 SeqsUpTo(TryHardResultRows, MaxTryResults), {"all", "1"})
    /\ [][RunPipeline]_vars

TopsOf(c) ==
    Cardinality({i \in FilteredRows :
                    /\ rawResults[i].climber_id = c
                    /\ rawResults[i].top_completed \in LooselyOne})

----------------------------------------------------------------------------
(* Ties in the climber awards *)

MaxTieResults == 3

\* flashes, tops on the third attempt and zone-only results of the two roster
\* climbers in competition 1, and their tops in competition 2
TieResultRows ==
    {Topped("1", "b1", c, at) : c \in {"C1", "C2"}, at \in {"1", "3"}}
    \cup {ZoneOnly("1", "b2", c) : c \in {"C1", "C2"}}
    \cup {Topped("2", "b1", c, "3") : c \in {"C1", "C2"}}

SpecTie ==
    InitPipeline({Roster(<<"C1", "C2">>)},
                 SeqsUpTo(TieResultRows, MaxTieResults), {"all"})
    /\ [][RunPipeline]_vars

\* the climbers of S with the fewest total attempts
FewestAttempts(S) == {c \in S : \A d \in S : TotalAttemptsOf(c) <= TotalAttemptsOf(d)}

TryHardWinners ==
    LET withTop == {c \in RosterClimbers : TopsOf(c) > 0}
        most == {c \in withTop : \A d \in withTop : TotalAttemptsOf(d) <= TotalAttemptsOf(c)}
    IN {c \in most : \A d \in most : TopsOf(d) <= TopsOf(c)}

FlashWinners ==
    FewestAttempts({c \in RosterClimbers :
                      FlashesOf(c) > 0 /\ \A d \in RosterClimbers : FlashesOf(d) <= FlashesOf(c)})

ZoneWinners ==
    FewestAttempts({c \in RosterClimbers :
                      ZoneOnlyOf(c) > 0 /\ \A d \in RosterClimbers : ZoneOnlyOf(d) <= ZoneOnlyOf(c)})

EfficiencyWinners ==
    LET P(c) == climberStats[IndexOfKey(climberStats, "climber_id", c)].total_points
        eligible == {c \in RosterClimbers : TotalAttemptsOf(c) > 0}
        best == {c \in eligible :
                    \A d \in eligible : P(c) * TotalAttemptsOf(d) >= P(d) * TotalAttemptsOf(c)}
    IN {c \in eligible :
          \E b \in best :
             1000 * Abs(P(c) * TotalAttemptsOf(b) - P(b) * TotalAttemptsOf(c))
                < TotalAttemptsOf(c) * TotalAttemptsOf(b)}

\* the winners of each climber award
WinnersOf(award) ==
    CASE award = "try_hard_award" -> TryHardWinners
      [] award = "flash_master" -> FlashWinners
      [] award = "efficiency_king" -> EfficiencyWinners
      [] award = "zone_hero" -> ZoneWinners
      [] award = "perfect_score" -> PoolWinners

ClimberAwards ==
    {"try_hard_award", "flash_master", "efficiency_king", "zone_hero", "perfect_score"}

\* award a names the winners W, all of them, each once
NamesWinners(award, a, W) ==
    IF award = "perfect_score" THEN NamesPairs(a, W)
    ELSE a.climber_name \in JoinedInSomeOrder(W, NameOf)

\* C13 as stated: every non-null climber award carries a boolean is_tie that is
\* true exactly when it has more than one winner, whose names are then joined
\* with " & ".
C13_AsStated ==
    pc = "pipe:done" /\ ~threw =>
        \A award \in ClimberAwards :
            LET a == funStats[award]
                W == WinnersOf(award)
            IN a # Null =>
                  /\ "is_tie" \in DOMAIN a
                  /\ a.is_tie \in BOOLEAN
                  /\ a.is_tie <=> Cardinality(W) > 1
                  /\ Cardinality(W) > 1 => a.climber_name \in JoinedInSomeOrder(W, NameOf)

\* C13: a non-null climber award has the field is_tie, with the value true,
\* exactly when it has more than one winner, and has no is_tie field when it
\* has a single winner; its display name is the names of all winners joined
\* with " & " (for Perfect Score winners of several competitions, each name
\* followed by its competition).
C13_TieFlag ==
    pc = "pipe:done" =>
        /\ ~threw
        /\ \A award \in ClimberAwards :
              LET a == funStats[award]
                  W == WinnersOf(award)
              IN a # Null =>
                    /\ "is_tie" \in DOMAIN a <=> Cardinality(W) > 1
                    /\ "is_tie" \in DOMAIN a => a.is_tie = TRUE
                    /\ NamesWinners(award, a, W)

\* both climbers flashed the only boulder and have no other result: Try Hard,
\* Flash Master, Efficiency King and Perfect Score are tied between them
C13_Witness ==
    /\ pc = "pipe:done"
    /\ ~threw
    /\ Len(rawResults) = 2
    /\ \A award \in ClimberAwards \ {"zone_hero"} :
          /\ funStats[award] # Null
          /\ "is_tie" \in DOMAIN funStats[award]
          /\ funStats[award].climber_name \in {"Zed & Amy", "Amy & Zed"}
    /\ funStats.zone_hero = Null

----------------------------------------------------------------------------
(* Attempts values of every kind *)

MaxAttemptResults == 2

\* attempts_to_zone and attempts_to_top: a count as string or number, empty,
\* missing, and a string that is no number
AttemptValues == {Str("2"), Num(2), Str("0"), Str(""), Undef, Str("abc")}

AttemptResultRows ==
    {ResultRow("1", "b1", "C1", az, at, Str("1"), Str("1")) : az, at \in AttemptValues}

SpecAttempts ==
    InitPipeline({Roster(<<"C1", "C2">>)},
                 SeqsUpTo(AttemptResultRows, MaxAttemptResults), {"all"})
    /\ [][RunPipeline]_vars

\* C14: an unparseable or missing attempts value contributes 0: every climber's
\* and team's total_attempts, every comp_breakdown attempts value and every
\* per-boulder attempt sum is a non-negative integer, never NaN.
C14_AttemptsNeverNaN ==
    pc = "pipe:done" =>
        /\ \A i \in 1..Len(climberStats) :
              /\ climberStats[i].total_attempts \in Nat
              /\ \A k \in 1..Len(climberStats[i].comp_breakdown) :
                    climberStats[i].comp_breakdown[k].attempts \in Nat
        /\ \A i \in 1..Len(teamStats) : teamStats[i].total_attempts \in Nat
        /\ LET ba == boulderAttempts(filterByComp(rawResults, currentFilter))
           IN \A k \in 1..Len(ba) : ba[k].attempts \in Nat

----------------------------------------------------------------------------
(* Results of climbers that are in no roster *)

\* the climber_ids of the roster rows
RosterIds == {rawTeams[i].climber_id : i \in 1..Len(rawTeams)}

\* the filtered results without the rows of climbers that are in no roster
KnownResults ==
    SelectSeq(filterByComp(rawResults, currentFilter),
              LAMBDA r : r.climber_id \in RosterIds)

\* C15: result rows whose climber_id is not in the roster are skipped: the
\* climber statistics and the team statistics are the ones computed from the
\* results without those rows, and no entry exists for such a climber.
C15_UnknownRowsSkipped ==
    pc = "pipe:done" =>
        /\ climberStats = aggregateClimberStats(rawTeams, KnownResults, "")
        /\ teamStats = aggregateTeamStats(aggregateClimberStats(rawTeams, KnownResults, ""),
                                          rawTeams)
        /\ \A i \in 1..Len(climberStats) : climberStats[i].climber_id \in RosterIds

\* a result of C9, who is in no roster, next to a result of a roster climber
C15_Witness ==
    /\ pc = "pipe:done"
    /\ currentFilter = "all"
    /\ Len(rawResults) = 2
    /\ rawResults[1].climber_id = "C9"
    /\ rawResults[2].climber_id = "C1"
    /\ Len(climberStats) = 1
    /\ climberStats[1].climber_id = "C1"
    /\ climberStats[1].total_points = 100
    /\ climberStats[1].total_attempts = 3

\* ---------------------------------------------------------------------------
\* The division lists
\* ---------------------------------------------------------------------------

MaxDivRoster == 2

\* the division column of teams.csv, also with a value that is none of the
\* three divisions, one that differs in case, and an empty cell
DivisionValues == {"Beginner", "Intermediate", "Advanced", "Open", "beginner", ""}

DivRosterRows ==
    {[team_id |-> "T1", team_name |-> TeamName("T1"), climber_id |-> c,
      climber_name |-> ClimberName(c), division |-> d] :
        c \in {"C1", "C2", "C3"}, d \in DivisionValues}

DivResultLists == {<<>>, <<Topped("1", "b1", "C1", "2"), Topped("1", "b1", "C2", "3")>>}

SpecDivision ==
    InitPipeline(SeqsUpTo(DivRosterRows, MaxDivRoster), DivResultLists, {"all"})
    /\ [][RunPipeline]_vars

\* how many times the entry e occurs in the list l
Occurrences(l, e) == Cardinality({k \in 1..Len(l) : l[k] = e})

\* C16: the division statistics have exactly the keys Beginner, Intermediate
\* and Advanced, whatever the divisions of the roster; an entry of the climber
\* statistics whose division is one of the three is in that division's list
\* exactly once and in no other list, and an entry with any other division is
\* in no list; every list holds entries of the climber statistics only.
C16_ThreeDivisionLists ==
    pc = "pipe:done" =>
        /\ DOMAIN divisionStats = {"Beginner", "Intermediate", "Advanced"}
        /\ \A i \in 1..Len(climberStats) : \A d \in DOMAIN divisionStats :
              Occurrences(divisionStats[d], climberStats[i])
              = IF climberStats[i].division = d THEN 1 ELSE 0
        /\ \A d \in DOMAIN divisionStats : \A k \in 1..Len(divisionStats[d]) :
              \E i \in 1..Len(climberStats) : divisionStats[d][k] = climberStats[i]

\* a roster with an Intermediate climber and one of an unknown division
C16_Witness ==
    /\ pc = "pipe:done"
    /\ Len(climberStats) = 2
    /\ climberStats[1].division = "Open"
    /\ climberStats[2].division = "Intermediate"
    /\ divisionStats["Intermediate"] = <<climberStats[2]>>
    /\ divisionStats["Beginner"] = <<>>
    /\ divisionStats["Advanced"] = <<>>

\* ---------------------------------------------------------------------------
\* One filtered list for the whole pass
\* ---------------------------------------------------------------------------

\* the raw results the filter selects, in raw order
RowsOfFilter == Filter(rawResults, LAMBDA r : PassesFilter(r))

\* C17: after a pass, the climber statistics are the ones folded from the raw
\* results the filter selects, in raw order (all of them under "all", those of
\* the competition otherwise); the team and division statistics derive from
\* these climber statistics; and the fun statistics are the ones computed from
\* the same list (the pass ends in an exception exactly when that computation
\* does).
C17_OneFilteredList ==
    pc = "pipe:done" =>
        /\ climberStats = aggregateClimberStats(rawTeams, RowsOfFilter, "")
        /\ teamStats = aggregateTeamStats(climberStats, rawTeams)
        /\ divisionStats = aggregateDivisionStats(climberStats)
        /\ \E fs \in {computeFunStats(RowsOfFilter, climberStats, teamStats)} :
              /\ threw = (fs = TypeError)
              /\ ~threw => funStats = fs

\* results of two competitions under the filter of the first: the statistics
\* count the first competition's row only
C17_Witness ==
    /\ pc = "pipe:done"
    /\ currentFilter = "1"
    /\ rawResults = <<Topped("2", "b1", "C1", "2"), Topped("1", "b1", "C1", "2")>>
    /\ ~threw
    /\ Len(climberStats) = 1
    /\ climberStats[1].total_points = 100
    /\ climberStats[1].total_attempts = 3
    /\ funStats.try_hard_award # Null
    /\ funStats.try_hard_award.attempts = 3
    /\ funStats.try_hard_award.tops = 1

\* ---------------------------------------------------------------------------
\* Loading the two datasets
\* ---------------------------------------------------------------------------

(* A CSV text is modelled by its non-blank lines in order (the lines that   *)
(* parseCsv keeps after its filter), and each line by the trimmed fields    *)
(* that parseCSVLine splits it into; the text without any line is <<>>.     *)

teamsRequiredColumns ==
    <<"team_id", "team_name", "climber_id", "climber_name", "division">>
resultsRequiredColumns ==
    <<"comp_id", "comp_date", "boulder_id", "climber_id",
      "attempts_to_zone", "attempts_to_top", "zone_completed", "top_completed">>

\* the value of an Error, and whether a value is one
IsError(v) == "error" \in DOMAIN v

\* the first missing column only
missingColumnsFirstOnly(headers, requiredColumns) ==
    SubSeq(Filter(requiredColumns, LAMBDA col : \A k \in 1..Len(headers) : headers[k] # col),
           1, 1)

\* requiredColumns.filter(col => !headers.includes(col))
missingColumns(headers, requiredColumns) ==
    Filter(requiredColumns, LAMBDA col : \A k \in 1..Len(headers) : headers[k] # col)

\* headers.forEach((header, index) => row[header] = values[index]): of two
\* columns with one name the later one stays
parseRow(headers, values) ==
    [h \in {headers[k] : k \in 1..Len(headers)} |->
        values[CHOOSE k \in 1..Len(headers) :
                  /\ headers[k] = h
                  /\ \A j \in (k + 1)..Len(headers) : headers[j] # h]]

\* the loop over the data lines: a line whose field count differs from the
\* header's is skipped with a warning
parseRows(lines, headers) ==
    LET kept == Filter(Tail(lines), LAMBDA values : Len(values) = Len(headers))
    IN [i \in 1..Len(kept) |-> parseRow(headers, kept[i])]

\* parseCsv(csvText, requiredColumns): the rows, or the Error thrown
parseCsv(csvText, requiredColumns) ==
    IF Len(csvText) = 0 THEN [error |-> "Empty CSV file"]
    ELSE IF Len(missingColumns(csvText[1], requiredColumns)) > 0
    THEN [error |-> "Missing required columns",
          columns |-> missingColumns(csvText[1], requiredColumns)]
    ELSE [rows |-> parseRows(csvText, csvText[1])]

\* a parsed row of teams.csv as the aggregation reads it
teamOf(row) ==
    [team_id |-> row.team_id, team_name |-> row.team_name,
     climber_id |-> row.climber_id, climber_name |-> row.climber_name,
     division |-> row.division]

\* a parsed row of results.csv as the aggregation reads it: every field a string
resultOf(row) ==
    ResultRow(row.comp_id, row.boulder_id, row.climber_id,
              Str(row.attempts_to_zone), Str(row.attempts_to_top),
              Str(row.zone_completed), Str(row.top_completed))

\* loadAllData after its await: teams parsed first, then results; the value
\* returned, or the Error thrown
parseBoth(teamsText, resultsText) ==
    IF IsError(parseCsv(teamsText, teamsRequiredColumns))
    THEN [error |-> "Error parsing teams data",
          cause |-> parseCsv(teamsText, teamsRequiredColumns)]
    ELSE IF IsError(parseCsv(resultsText, resultsRequiredColumns))
    THEN [error |-> "Error parsing results data",
          cause |-> parseCsv(resultsText, resultsRequiredColumns)]
    ELSE [teams |-> [i \in 1..Len(parseCsv(teamsText, teamsRequiredColumns).rows) |->
                        teamOf(parseCsv(teamsText, teamsRequiredColumns).rows[i])],
          results |-> [i \in 1..Len(parseCsv(resultsText, resultsRequiredColumns).rows) |->
                        resultOf(parseCsv(resultsText, resultsRequiredColumns).rows[i])]]

\* the promise of one loadCsv call
Pending == [st |-> "pending", text |-> <<>>]
Rejected == [st |-> "rejected", text |-> <<>>]
Fulfilled(text) == [st |-> "fulfilled", text |-> text]

\* fulfilled as soon as one of the two promises is
promiseAllFirstFulfilled(a, b) ==
    IF a.st = "fulfilled" \/ b.st = "fulfilled" THEN "fulfilled"
    ELSE IF a.st = "rejected" \/ b.st = "rejected" THEN "rejected"
    ELSE "pending"

\* Promise.all([a, b]): rejected once one of the two is, fulfilled once both are
promiseAll(a, b) ==
    IF a.st = "rejected" \/ b.st = "rejected" THEN "rejected"
    ELSE IF a.st = "fulfilled" /\ b.st = "fulfilled" THEN "fulfilled"
    ELSE "pending"

\* a call of loadAllData whose two fetches are under way; outcome is what the
\* calling initialize did with it: nothing yet ("pending"), the catch branch
\* without a pass ("failed"), or computeAllStats ("computed")
NewLoad == [teams |-> Pending, results |-> Pending, outcome |-> "pending"]

\* showError(`Initialization failed: ${error.message}`)
Shown(error) == [kind |-> "shown", prefix |-> "Initialization failed", error |-> error]

MaxLoadsStarted == 2

TeamsHeader == teamsRequiredColumns
ResultsHeader == resultsRequiredColumns

\* teams.csv as the data source may serve it: complete; with a line one field
\* short; with a header that lacks team_name and division; empty
TeamsTexts ==
    {<<TeamsHeader, <<"T1", "Alpha", "C1", "Zed", "Beginner">>,
                    <<"T2", "Beta", "C2", "Amy", "Advanced">>>>,
     <<TeamsHeader, <<"T1", "Alpha", "C1", "Zed">>,
                    <<"T2", "Beta", "C2", "Amy", "Advanced">>>>,
     <<<<"team_id", "climber_id", "climber_name">>, <<"T1", "C1", "Zed">>>>,
     <<>>}

\* results.csv as the data source may serve it: complete; with a line one
\* field long; with a header that lacks comp_date and top_completed
ResultsTexts ==
    {<<ResultsHeader, <<"1", "2025-01-01", "b1", "C1", "1", "2", "1", "1">>,
                      <<"1", "2025-01-01", "b1", "C2", "1", "1", "1", "1">>>>,
     <<ResultsHeader, <<"1", "2025-01-01", "b1", "C1", "1", "1", "1", "1", "">>,
                      <<"1", "2025-01-01", "b2", "C2", "1", "3", "1", "1">>>>,
     <<<<"comp_id", "boulder_id", "climber_id", "attempts_to_zone",
         "attempts_to_top", "zone_completed">>,
       <<"1", "b1", "C1", "1", "2", "1">>>>}

\* how a loadCsv call may end
Responses(which) ==
    {Rejected} \cup {Fulfilled(text) :
                        text \in IF which = "teams" THEN TeamsTexts ELSE ResultsTexts}

\* the page after DOMContentLoaded: initialize() has hidden the error display
\* and awaits loadAllData, whose two fetches are under way
InitLoad ==
    /\ pc = "load"
    /\ InitAppState
    /\ NoPoints /\ NoSort
    /\ tables = [t \in TableIds |-> <<>>]
    /\ rendered = [t \in TableIds |-> <<>>]
    /\ sortClass = [t \in TableIds |-> Null]
    /\ sortState = NoSortState
    /\ sortingInitialized = [t \in TableIds |-> FALSE]
    /\ inflight = 0
    /\ loads = <<NewLoad>>
    /\ errorDisplay = NoError
    /\ NoHeap

\* a catch branch that also empties the raw data
InitializeCatchesAndClears(error) ==
    /\ errorDisplay' = Shown(error)
    /\ rawTeams' = <<>>
    /\ rawResults' = <<>>
    /\ UNCHANGED <<currentFilter, climberStats, teamStats, divisionStats, funStats,
                   threw, tables, rendered, sortingInitialized>>

\* initialize() in its catch branch: the error is shown, nothing else changes
InitializeCatches(error) ==
    /\ errorDisplay' = Shown(error)
    /\ UNCHANGED <<appVars, tables, rendered, sortingInitialized>>

\* initialize() after its await, with the value loadAllData returned: the
\* data is stored, computeAllStats runs, then renderAll; an exception from
\* computeAllStats is caught and shown
InitializeContinues(data0) ==
    \E r \in {pipeline(data0.teams, data0.results, currentFilter)} :
       /\ rawTeams' = data0.teams
       /\ rawResults' = data0.results
       /\ climberStats' = r.climberStats
       /\ teamStats' = r.teamStats
       /\ divisionStats' = r.divisionStats
       /\ funStats' = IF r.funStats = TypeError THEN funStats ELSE r.funStats
       /\ threw' = (r.funStats = TypeError)
       /\ UNCHANGED currentFilter
       /\ IF r.funStats = TypeError
          THEN /\ errorDisplay' = Shown(TypeError)
               /\ UNCHANGED <<tables, rendered, sortingInitialized>>
          ELSE /\ UNCHANGED errorDisplay
               /\ renderAll(r.climberStats, r.teamStats)

\* the promise of loadAllData of load l settles with the fetches as in
\* `after`, and the initialize() that awaits it resumes
LoadSettles(l, which, after) ==
    IF promiseAll(after.teams, after.results) = "rejected"
    THEN /\ InitializeCatches([error |-> "Unable to load", dataset |-> which])
         /\ loads' = [loads EXCEPT ![l] = [after EXCEPT !.outcome = "failed"]]
    ELSE \E p \in {parseBoth(after.teams.text, after.results.text)} :
            IF IsError(p)
            THEN /\ InitializeCatches(p)
                 /\ loads' = [loads EXCEPT ![l] = [after EXCEPT !.outcome = "failed"]]
            ELSE /\ InitializeContinues(p)
                 /\ loads' = [loads EXCEPT ![l] = [after EXCEPT !.outcome = "computed"]]

\* one of the fetches of a load ends, with a response or with an error; when
\* this settles the Promise.all of the load, loadAllData and initialize resume
FetchSettles ==
    /\ pc = "load"
    /\ \E l \in 1..Len(loads), which \in {"teams", "results"} :
          /\ loads[l][which].st = "pending"
          /\ \E response \in Responses(which) :
                \E after \in {[loads[l] EXCEPT ![which] = response]} :
                   IF /\ promiseAll(loads[l].teams, loads[l].results) = "pending"
                      /\ promiseAll(after.teams, after.results) # "pending"
                   THEN LoadSettles(l, which, after)
                   ELSE /\ loads' = [loads EXCEPT ![l] = after]
                        /\ UNCHANGED <<appVars, errorDisplay, tables, rendered,
                                       sortingInitialized>>
    /\ UNCHANGED <<pc, sortClass, sortState, inflight, heapVars, pointVars, sortVars>>

\* the reload button: refresh() runs clearState(), then initialize() hides the
\* error display and awaits a new loadAllData
Reload ==
    /\ pc = "load" /\ Len(loads) < MaxLoadsStarted
    /\ rawTeams' = <<>>
    /\ rawResults' = <<>>
    /\ climberStats' = <<>>
    /\ teamStats' = <<>>
    /\ divisionStats' = EmptyMap
    /\ funStats' = EmptyObject
    /\ currentFilter' = "all"
    /\ sortState' = NoSortState
    /\ errorDisplay' = NoError
    /\ loads' = Append(loads, NewLoad)
    /\ UNCHANGED <<pc, threw, tables, rendered, sortClass, sortingInitialized,
                   inflight, heapVars, pointVars, sortVars>>

SpecLoad == InitLoad /\ [][FetchSettles \/ Reload]_vars

\* C18: the two fetches of a load end in either order; the pass that
\* initialize runs for a load starts only once both fetches have ended with a
\* response and both texts have been parsed, and a load of which a fetch has
\* failed runs no pass.  As long as a fetch of a load is under way and none
\* has failed the load has done nothing; and a step stores data in AppState
\* only when it ends the second fetch of a load, with the rows parsed from the
\* two responses of that load.
C18_PassAfterBothFetches ==
    /\ [](\A l \in 1..Len(loads) :
            /\ loads[l].outcome = "computed" =>
                  /\ loads[l].teams.st = "fulfilled"
                  /\ loads[l].results.st = "fulfilled"
                  /\ ~IsError(parseBoth(loads[l].teams.text, loads[l].results.text))
            /\ (loads[l].teams.st = "rejected" \/ loads[l].results.st = "rejected")
                  => loads[l].outcome = "failed"
            /\ (/\ "pending" \in {loads[l].teams.st, loads[l].results.st}
                /\ "rejected" \notin {loads[l].teams.st, loads[l].results.st})
                  => loads[l].outcome = "pending")
    /\ [][(rawTeams' # <<>> /\ <<rawTeams, rawResults, climberStats>>'
                               # <<rawTeams, rawResults, climberStats>>) =>
            \E l \in 1..Len(loads) :
               /\ "pending" \in {loads[l].teams.st, loads[l].results.st}
               /\ loads'[l].teams.st = "fulfilled"
               /\ loads'[l].results.st = "fulfilled"
               /\ loads'[l].outcome = "computed"
               /\ \E p \in {parseBoth(loads'[l].teams.text, loads'[l].results.text)} :
                     /\ rawTeams' = p.teams
                     /\ rawResults' = p.results
                     /\ climberStats' = aggregateClimberStats(p.teams, p.results, "")]_vars

\* the first load ran its pass before the reload; of the second load the teams
\* fetch ended with a complete file and the results fetch failed: no pass, the
\* state that clearState left is still there and the error is shown
C18_Witness ==
    /\ Len(loads) = 2
    /\ loads[1].outcome = "computed"
    /\ loads[2].teams.st = "fulfilled"
    /\ Len(loads[2].teams.text) = 3
    /\ loads[2].results.st = "rejected"
    /\ loads[2].outcome = "failed"
    /\ rawTeams = <<>>
    /\ climberStats = <<>>
    /\ errorDisplay = Shown([error |-> "Unable to load", dataset |-> "results"])

\* ---------------------------------------------------------------------------
\* Missing columns and malformed lines
\* ---------------------------------------------------------------------------

\* the required columns that the header of a text does not have
HeaderLacks(text, required) ==
    {required[k] : k \in 1..Len(required)} \ {text[1][k] : k \in 1..Len(text[1])}

\* the text has a header, and the header lacks a required column
LacksColumn(text, required) ==
    Len(text) > 0 /\ HeaderLacks(text, required) # {}

\* the data lines of a text that have as many fields as its header
WellFormedLines(text) ==
    Filter(Tail(text), LAMBDA line : Len(line) = Len(text[1]))

\* the Error of parseCsv names exactly the columns the header of text lacks
NamesMissing(error, text, required) ==
    /\ IsError(error)
    /\ error.error = "Missing required columns"
    /\ {error.columns[k] : k \in 1..Len(error.columns)} = HeaderLacks(text, required)
    /\ "rows" \notin DOMAIN error

\* C20: in the step in which initialize resumes with both responses of a load,
\* (1) if the header of the teams text or of the results text lacks a required
\* column, parseCsv of that text ends in an Error that names exactly the
\* missing columns and has no rows, the load fails, the error display shows
\* the Error of loadAllData (which names the missing columns of the teams
\* text, or those of the results text when the teams text parsed), and the
\* data and the statistics of AppState and the tables stay as they were: no
\* computeAllStats; (2) if both headers are complete the load does not fail,
\* and the rows stored are those of the lines that have as many fields as the
\* header, in order: the other lines are skipped.
C20_MissingColumnsAndSkippedLines ==
    [][\A l \in 1..Len(loads) :
          (/\ "pending" \in {loads[l].teams.st, loads[l].results.st}
           /\ loads'[l].teams.st = "fulfilled"
           /\ loads'[l].results.st = "fulfilled") =>
             \E t \in {loads'[l].teams.text}, r \in {loads'[l].results.text} :
                /\ LacksColumn(t, teamsRequiredColumns) =>
                      /\ NamesMissing(parseCsv(t, teamsRequiredColumns), t, teamsRequiredColumns)
                      /\ errorDisplay' = Shown([error |-> "Error parsing teams data",
                                                cause |-> parseCsv(t, teamsRequiredColumns)])
                /\ LacksColumn(r, resultsRequiredColumns) =>
                      /\ NamesMissing(parseCsv(r, resultsRequiredColumns), r,
                                      resultsRequiredColumns)
                      /\ (Len(t) > 0 /\ ~LacksColumn(t, teamsRequiredColumns)) =>
                            errorDisplay' = Shown([error |-> "Error parsing results data",
                                                   cause |-> parseCsv(r, resultsRequiredColumns)])
                /\ (LacksColumn(t, teamsRequiredColumns)
                    \/ LacksColumn(r, resultsRequiredColumns)) =>
                      /\ loads'[l].outcome = "failed"
                      /\ errorDisplay'.kind = "shown"
                      /\ UNCHANGED <<appVars, tables, rendered>>
                /\ (/\ Len(t) > 0 /\ ~LacksColumn(t, teamsRequiredColumns)
                    /\ Len(r) > 0 /\ ~LacksColumn(r, resultsRequiredColumns)) =>
                      /\ loads'[l].outcome = "computed"
                      /\ Len(rawTeams') = Len(WellFormedLines(t))
                      /\ \A k \in 1..Len(rawTeams') :
                            <<rawTeams'[k].team_id, rawTeams'[k].team_name,
                              rawTeams'[k].climber_id, rawTeams'[k].climber_name,
                              rawTeams'[k].division>> = WellFormedLines(t)[k]
                      /\ Len(rawResults') = Len(WellFormedLines(r))
                      /\ \A k \in 1..Len(rawResults') :
                            <<rawResults'[k].comp_id, rawResults'[k].boulder_id,
                              rawResults'[k].climber_id, rawResults'[k].attempts_to_top>>
                            = <<WellFormedLines(r)[k][1], WellFormedLines(r)[k][3],
                                WellFormedLines(r)[k][4], Str(WellFormedLines(r)[k][6])>>]_vars

\* the reloaded data had a teams header without team_name and division: its
\* load failed and the error display names the two columns; the first load
\* ended afterwards with a teams text whose first data line is one field
\* short, and stored the other line only
C20_Witness ==
    /\ Len(loads) = 2
    /\ loads[2].outcome = "failed"
    /\ loads[2].teams.st = "fulfilled"
    /\ loads[2].results.st = "fulfilled"
    /\ errorDisplay = Shown([error |-> "Error parsing teams data",
                             cause |-> [error |-> "Missing required columns",
                                        columns |-> <<"team_name", "division">>]])
    /\ loads[1].outcome = "computed"
    /\ Len(loads[1].teams.text) = 3
    /\ Len(rawTeams) = 1
    /\ rawTeams[1].climber_id = "C2"
    /\ Len(climberStats) = 1

\* ---------------------------------------------------------------------------
\* The identity of the cached structures
\* ---------------------------------------------------------------------------

(* objects is the sequence of the Map and Object instances the cache fields *)
(* of AppState have referred to, in order of creation; an instance is known *)
(* by its position, and objects[o] is its present content.  refs tells      *)
(* which instance each field refers to, so that climberStats is the content *)
(* of objects[refs.climberStats], and likewise for the other three fields.  *)

MaxObjects == 17

\* AppState as the object literal builds it: three empty Maps and an empty
\* object; initialize() awaits its data
InitCache ==
    /\ pc = "cache"
    /\ InitAppState
    /\ NoPoints /\ NoSort
    /\ tables = [t \in TableIds |-> <<>>]
    /\ rendered = [t \in TableIds |-> <<>>]
    /\ sortClass = [t \in TableIds |-> Null]
    /\ sortState = NoSortState
    /\ sortingInitialized = [t \in TableIds |-> FALSE]
    /\ inflight = 1
    /\ NoLoads
    /\ objects = <<<<>>, <<>>, EmptyMap, EmptyObject>>
    /\ refs = [climberStats |-> 1, teamStats |-> 2, divisionStats |-> 3, funStats |-> 4]

\* computeAllStats and renderAll on the outcome r of the pipeline: each
\* aggregate function returns a new Map, computeFunStats a new object; an
\* exception from computeFunStats leaves funStats referring to the old object
\* and skips the render
InstallNew(r) ==
    /\ climberStats' = r.climberStats
    /\ teamStats' = r.teamStats
    /\ divisionStats' = r.divisionStats
    /\ funStats' = IF r.funStats = TypeError THEN funStats ELSE r.funStats
    /\ threw' = (r.funStats = TypeError)
    /\ objects' = objects \o <<r.climberStats, r.teamStats, r.divisionStats>>
                          \o (IF r.funStats = TypeError THEN <<>> ELSE <<r.funStats>>)
    /\ refs' = [climberStats |-> Len(objects) + 1,
                teamStats |-> Len(objects) + 2,
                divisionStats |-> Len(objects) + 3,
                funStats |-> IF r.funStats = TypeError THEN refs.funStats
                             ELSE Len(objects) + 4]
    /\ IF r.funStats = TypeError
       THEN UNCHANGED <<tables, rendered, sortingInitialized>>
       ELSE renderAll(r.climberStats, r.teamStats)

\* initialize() resumes with the data of loadAllData
CacheLoadSucceeds ==
    /\ pc = "cache" /\ inflight > 0 /\ Len(objects) + 4 <= MaxObjects
    /\ \E teams \in TeamsFiles, results \in ResultsFiles :
          /\ rawTeams' = teams
          /\ rawResults' = results
          /\ \E r \in {pipeline(teams, results, currentFilter)} : InstallNew(r)
    /\ inflight' = inflight - 1
    /\ UNCHANGED <<pc, currentFilter, sortClass, sortState, pointVars, sortVars, loadVars>>

\* AppState.applyFilter(compId)
CacheApplyFilter ==
    /\ pc = "cache" /\ Len(objects) + 4 <= MaxObjects
    /\ \E compId \in FilterValues :
          /\ currentFilter' = compId
          /\ \E r \in {pipeline(rawTeams, rawResults, compId)} : InstallNew(r)
    /\ UNCHANGED <<pc, rawTeams, rawResults, sortClass, sortState, inflight,
                   pointVars, sortVars, loadVars>>

\* AppState.refresh(): clearState() empties the three Maps the fields refer
\* to by Map.prototype.clear and assigns a new empty object to funStats; then
\* initialize() runs up to its await
CacheRefresh ==
    /\ pc = "cache" /\ inflight < MaxLoads /\ Len(objects) < MaxObjects
    /\ rawTeams' = <<>>
    /\ rawResults' = <<>>
    /\ climberStats' = <<>>
    /\ teamStats' = <<>>
    /\ divisionStats' = EmptyMap
    /\ funStats' = EmptyObject
    /\ objects' = [objects EXCEPT ![refs.climberStats] = <<>>,
                                  ![refs.teamStats] = <<>>,
                                  ![refs.divisionStats] = EmptyMap]
                  \o <<EmptyObject>>
    /\ refs' = [refs EXCEPT !.funStats = Len(objects) + 1]
    /\ currentFilter' = "all"
    /\ sortState' = NoSortState
    /\ inflight' = inflight + 1
    /\ UNCHANGED <<pc, threw, tables, rendered, sortClass, sortingInitialized,
                   pointVars, sortVars, loadVars>>

SpecCache == InitCache /\ [][CacheLoadSucceeds \/ CacheApplyFilter \/ CacheRefresh]_vars

\* the fields of AppState hold the content of the instances they refer to
CacheView ==
    pc = "cache" =>
        /\ climberStats = objects[refs.climberStats]
        /\ teamStats = objects[refs.teamStats]
        /\ divisionStats = objects[refs.divisionStats]
        /\ funStats = objects[refs.funStats]

\* C19: no step changes the content of a Map or object that the cache has
\* held; a step that recomputes the statistics makes the three Map fields
\* refer to instances that did not exist before (and funStats too, unless the
\* recompute ended in an exception), and every other step leaves the fields
\* referring to the instances they referred to.
C19_CacheReplacedNeverEdited ==
    [][/\ \A o \in 1..Len(objects) : objects'[o] = objects[o]
       /\ \A f \in {"climberStats", "teamStats", "divisionStats"} :
             refs'[f] # refs[f] => refs'[f] > Len(objects)]_vars

\* ---------------------------------------------------------------------------
\* Degenerate inputs
\* ---------------------------------------------------------------------------

\* the eight fields of funStats
AwardNames ==
    {"most_attempts_team", "most_attempts_boulder", "least_attempts_boulder",
     "try_hard_award", "flash_master", "efficiency_king", "perfect_score", "zone_hero"}

\* C21: when the filter lets no result through, the pass raises no error;
\* with an empty roster the climber and team statistics are empty, the three
\* division lists are empty and the eight awards are null; with a roster every
\* climber and every team has zero points and zero attempts.
C21_DegenerateInputs ==
    (pc = "pipe:done" /\ RowsOfFilter = <<>>) =>
        /\ ~threw
        /\ DOMAIN funStats = AwardNames
        /\ rawTeams = <<>> =>
              /\ climberStats = <<>>
              /\ teamStats = <<>>
              /\ divisionStats = [d \in {"Beginner", "Intermediate", "Advanced"} |-> <<>>]
              /\ \A a \in AwardNames : funStats[a] = Null
        /\ rawTeams # <<>> =>
              /\ Len(climberStats) > 0 /\ Len(teamStats) > 0
              /\ \A i \in 1..Len(climberStats) :
                    /\ climberStats[i].total_points = 0
                    /\ climberStats[i].total_attempts = 0
              /\ \A i \in 1..Len(teamStats) :
                    /\ teamStats[i].total_points = 0
                    /\ teamStats[i].total_attempts = 0

\* a pass over no roster row and no result row
C21_Witness ==
    /\ pc = "pipe:done"
    /\ rawTeams = <<>>
    /\ rawResults = <<>>
    /\ ~threw
    /\ funStats.most_attempts_team = Null
    /\ funStats.zone_hero = Null
    /\ DOMAIN divisionStats = {"Beginner", "Intermediate", "Advanced"}

\* ---------------------------------------------------------------------------
\* The attempt awards of boulders and teams
\* ---------------------------------------------------------------------------

MaxAwardResults == 3

\* a result without zone or top, with its attempts in attempts_to_top
Tried(comp, boulder, climber, at) ==
    ResultRow(comp, boulder, climber, Str("0"), Str(at), Str("0"), Str("0"))

\* attempts on three boulders of two competitions: none, one, two, and a cell
\* that is no number; of the roster climbers C1 and C2 and of C9 (in no roster)
AwardResultRows ==
    {Tried(p[1], p[2], "C1", at) :
        p \in {<<"1", "b1">>, <<"1", "b2">>, <<"2", "b1">>}, at \in {"0", "1", "2", "abc"}}
    \cup {Tried("1", "b1", "C2", at) : at \in {"2", "abc"}}
    \cup {Tried("1", "b1", "C9", "2")}

\* no roster, one team, and two teams in either order
AwardRosters ==
    {<<>>, <<TeamRow("T1", "C1")>>,
     <<TeamRow("T1", "C1"), TeamRow("T2", "C2")>>,
     <<TeamRow("T2", "C2"), TeamRow("T1", "C1")>>}

SpecAttemptAwards ==
    InitPipeline(AwardRosters, SeqsUpTo(AwardResultRows, MaxAwardResults), {"all", "1"})
    /\ [][RunPipeline]_vars

\* the attempts of a row, an unparseable or missing value counting as 0
CountedAttempts(r) ==
    (IF ParseIntOrZero(r.attempts_to_zone) = NaN THEN 0
     ELSE ParseIntOrZero(r.attempts_to_zone))
    + (IF ParseIntOrZero(r.attempts_to_top) = NaN THEN 0
       ELSE ParseIntOrZero(r.attempts_to_top))

\* the (comp_id, boulder_id) pairs of the filtered results
Pairs == {<<RowsOfFilter[i].comp_id, RowsOfFilter[i].boulder_id>> : i \in 1..Len(RowsOfFilter)}

\* the rows of a pair, its summed attempts, and the row it first appears in
RowsOfPair(p) ==
    {i \in 1..Len(RowsOfFilter) :
        <<RowsOfFilter[i].comp_id, RowsOfFilter[i].boulder_id>> = p}
PairSum(p) == SumOver(RowsOfPair(p), [i \in 1..Len(RowsOfFilter) |-> CountedAttempts(RowsOfFilter[i])])
FirstRow(p) == CHOOSE i \in RowsOfPair(p) : \A j \in RowsOfPair(p) : i <= j

\* the award names the pair of S that appears first, with its sum
NamesFirstOf(award, S) ==
    \E p \in S :
       /\ \A q \in S : FirstRow(p) <= FirstRow(q)
       /\ award.comp_id = p[1]
       /\ award.boulder_id = p[2]
       /\ award.attempts = PairSum(p)

\* the pairs with a sum above 0
TriedPairs == {p \in Pairs : PairSum(p) > 0}

\* C22: Least Attempts (Boulder) is null exactly when no pair of the filtered
\* results has a sum above 0; otherwise it is the pair that appears first
\* among those whose sum is the smallest sum above 0, with that sum.
C22_LeastAttemptsBoulder ==
    (pc = "pipe:done" /\ ~threw) =>
        /\ funStats.least_attempts_boulder = Null <=> TriedPairs = {}
        /\ funStats.least_attempts_boulder # Null =>
              NamesFirstOf(funStats.least_attempts_boulder,
                           {p \in TriedPairs : \A q \in TriedPairs : PairSum(p) <= PairSum(q)})

\* C24: Most Attempts (Boulder) is null exactly when the filtered result list
\* is empty; otherwise it is the pair that appears first among those with the
\* largest sum, with that sum, the rows of climbers in no roster included.
C24_MostAttemptsBoulder ==
    (pc = "pipe:done" /\ ~threw) =>
        /\ funStats.most_attempts_boulder = Null <=> RowsOfFilter = <<>>
        /\ funStats.most_attempts_boulder # Null =>
              NamesFirstOf(funStats.most_attempts_boulder,
                           {p \in Pairs : \A q \in Pairs : PairSum(q) <= PairSum(p)})

\* C23: Most Attempts (Team) is null exactly when teamStats is empty;
\* otherwise it names the first team of teamStats whose total_attempts is the
\* largest of all teams, with that total.
C23_MostAttemptsTeam ==
    (pc = "pipe:done" /\ ~threw) =>
        /\ funStats.most_attempts_team = Null <=> teamStats = <<>>
        /\ funStats.most_attempts_team # Null =>
              \E i \in 1..Len(teamStats) :
                 /\ \A j \in 1..Len(teamStats) :
                       teamStats[j].total_attempts <= teamStats[i].total_attempts
                 /\ \A j \in 1..(i - 1) :
                       teamStats[j].total_attempts < teamStats[i].total_attempts
                 /\ funStats.most_attempts_team.team_name = teamStats[i].team_name
                 /\ funStats.most_attempts_team.attempts = teamStats[i].total_attempts

\* ---------------------------------------------------------------------------
\* Changing the filter over fixed raw data
\* ---------------------------------------------------------------------------

\* computeAllStats() on the given data and filter, followed by renderAll();
\* an exception from computeFunStats leaves funStats and the tables as they
\* were
computeAndRender(teams, results, filter) ==
    \E r \in {pipeline(teams, results, filter)} :
       /\ climberStats' = r.climberStats
       /\ teamStats' = r.teamStats
       /\ divisionStats' = r.divisionStats
       /\ funStats' = IF r.funStats = TypeError THEN funStats ELSE r.funStats
       /\ threw' = (r.funStats = TypeError)
       /\ IF r.funStats = TypeError
          THEN UNCHANGED <<tables, rendered, sortingInitialized>>
          ELSE renderAll(r.climberStats, r.teamStats)

\* rosters of one and of two teams
FilterTeamsFiles ==
    {<<TeamRow("T1", "C1")>>,
     <<TeamRow("T1", "C1"), TeamRow("T2", "C2")>>,
     <<TeamRow("T2", "C2"), TeamRow("T1", "C1")>>,
     <<TeamRow("T1", "C1"), TeamRow("T1", "C2")>>}

\* results of two competitions; in the last two lists the only flash of
\* competition 2 is the one of C9, who is in no roster
FilterResultsFiles ==
    {<<Topped("1", "b1", "C1", "1"), Topped("2", "b1", "C1", "2")>>,
     <<Topped("1", "b1", "C1", "2"), Topped("1", "b1", "C2", "1"),
       Topped("2", "b1", "C2", "3")>>,
     <<ZoneOnly("1", "b1", "C1"), Topped("2", "b1", "C1", "1"),
       Topped("2", "b1", "C2", "1")>>,
     <<Topped("2", "b1", "C2", "2")>>,
     <<Topped("1", "b1", "C1", "1"), Topped("2", "b1", "C1", "2"),
       Topped("2", "b2", "C9", "1")>>,
     <<Topped("1", "b1", "C2", "1"), ZoneOnly("2", "b1", "C1"),
       Topped("2", "b2", "C9", "1")>>}

\* the values of the dropdown, and a competition without results
FilterChoices == {"all", "1", "2", "3"}

\* the page after DOMContentLoaded, initialize() awaiting its data
InitFilter ==
    /\ pc = "filter"
    /\ InitAppState
    /\ NoPoints /\ NoSort
    /\ tables = [t \in TableIds |-> <<>>]
    /\ rendered = [t \in TableIds |-> <<>>]
    /\ sortClass = [t \in TableIds |-> Null]
    /\ sortState = NoSortState
    /\ sortingInitialized = [t \in TableIds |-> FALSE]
    /\ inflight = 1
    /\ NoLoads /\ NoHeap

\* initialize() resumes with the data of loadAllData; an exception from
\* computeAllStats is caught and shown
FilterLoad ==
    /\ pc = "filter" /\ inflight = 1
    /\ \E teams \in FilterTeamsFiles, results \in FilterResultsFiles :
          /\ rawTeams' = teams
          /\ rawResults' = results
          /\ computeAndRender(teams, results, currentFilter)
    /\ errorDisplay' = IF threw' THEN Shown(TypeError) ELSE errorDisplay
    /\ inflight' = 0
    /\ UNCHANGED <<pc, currentFilter, sortClass, sortState, loads, heapVars,
                   pointVars, sortVars>>

\* AppState.applyFilter(compId) once the data is there
FilterApply ==
    /\ pc = "filter" /\ inflight = 0
    /\ \E compId \in FilterChoices :
          /\ currentFilter' = compId
          /\ computeAndRender(rawTeams, rawResults, compId)
    /\ UNCHANGED <<pc, rawTeams, rawResults, sortClass, sortState, inflight,
                   loadVars, heapVars, pointVars, sortVars>>

SpecFilter == InitFilter /\ [][FilterLoad \/ FilterApply]_vars

\* the cache after initialize() and one applyFilter(filter) on the raw data:
\* the statistics of the filter, and the fun statistics of the filter, or,
\* when computeFunStats throws under the filter, what initialize() left
FreshFunStats(filter) ==
    IF pipeline(rawTeams, rawResults, filter).funStats # TypeError
    THEN pipeline(rawTeams, rawResults, filter).funStats
    ELSE IF pipeline(rawTeams, rawResults, "all").funStats # TypeError
    THEN pipeline(rawTeams, rawResults, "all").funStats
    ELSE EmptyObject

\* C25: with the raw data fixed, after any sequence of applyFilter calls the
\* four cached structures equal those of a single applyFilter with the last
\* filter value on the freshly initialized state.
C25_LastFilterOnly ==
    (pc = "filter" /\ inflight = 0) =>
        /\ climberStats = pipeline(rawTeams, rawResults, currentFilter).climberStats
        /\ teamStats = pipeline(rawTeams, rawResults, currentFilter).teamStats
        /\ divisionStats = pipeline(rawTeams, rawResults, currentFilter).divisionStats
        /\ funStats = FreshFunStats(currentFilter)

\* ---------------------------------------------------------------------------
\* The totals of a climber
\* ---------------------------------------------------------------------------

\* the rows of the filtered results of climber c, and those of competition comp
RowsOfClimber(c) == {k \in 1..Len(RowsOfFilter) : RowsOfFilter[k].climber_id = c}
RowsOfClimberIn(c, comp) == {k \in RowsOfClimber(c) : RowsOfFilter[k].comp_id = comp}

PointsOfRows(S) == SumOver(S, [k \in 1..Len(RowsOfFilter) |-> computePoints(RowsOfFilter[k])])
AttemptsOfRows(S) == SumOver(S, [k \in 1..Len(RowsOfFilter) |-> CountedAttempts(RowsOfFilter[k])])

\* C26: for every climber of the statistics, total_points is the sum of
\* computePoints and total_attempts the sum of the attempts over the climber's
\* rows of the filtered results, every occurrence of a row counted; the
\* comp_breakdown has one entry for each competition the climber has a row in
\* and no other, with the same sums over the rows of that competition; and
\* the entries add up to the totals.
C26_TotalsAreRowSums ==
    pc = "pipe:done" =>
        \A i \in 1..Len(climberStats) :
           \E c \in {climberStats[i].climber_id}, bd \in {climberStats[i].comp_breakdown} :
              /\ climberStats[i].total_points = PointsOfRows(RowsOfClimber(c))
              /\ climberStats[i].total_attempts = AttemptsOfRows(RowsOfClimber(c))
              /\ {bd[k].comp_id : k \in 1..Len(bd)}
                 = {RowsOfFilter[k].comp_id : k \in RowsOfClimber(c)}
              /\ \A k, l \in 1..Len(bd) : bd[k].comp_id = bd[l].comp_id => k = l
              /\ \A k \in 1..Len(bd) :
                    /\ bd[k].points = PointsOfRows(RowsOfClimberIn(c, bd[k].comp_id))
                    /\ bd[k].attempts = AttemptsOfRows(RowsOfClimberIn(c, bd[k].comp_id))
              /\ SumOver(1..Len(bd), [k \in 1..Len(bd) |-> bd[k].points])
                 = climberStats[i].total_points
              /\ SumOver(1..Len(bd), [k \in 1..Len(bd) |-> bd[k].attempts])
                 = climberStats[i].total_attempts

\* ---------------------------------------------------------------------------
\* The cache and the raw data
\* ---------------------------------------------------------------------------

\* C27: whenever no call of initialize is waiting for its data, the four
\* cached structures are the output of the pipeline on the current rawTeams,
\* rawResults and filter; in particular divisionStats has its three keys and
\* funStats its eight fields.
C27_CacheIsPipelineOutput ==
    (pc = "app" /\ inflight = 0) =>
        /\ climberStats = pipeline(rawTeams, rawResults, currentFilter).climberStats
        /\ teamStats = pipeline(rawTeams, rawResults, currentFilter).teamStats
        /\ divisionStats = pipeline(rawTeams, rawResults, currentFilter).divisionStats
        /\ funStats = pipeline(rawTeams, rawResults, currentFilter).funStats
        /\ DOMAIN divisionStats = Divisions
        /\ DOMAIN funStats = AwardNames

\* ---------------------------------------------------------------------------
\* Overlapping loads
\* ---------------------------------------------------------------------------

MaxOverlapLoads == 2

\* two teams texts and two results texts that parse, told apart by their rows
OverlapTeamsTexts ==
    {<<TeamsHeader, <<"T1", "Alpha", "C1", "Zed", "Beginner">>,
                    <<"T2", "Beta", "C2", "Amy", "Advanced">>>>,
     <<TeamsHeader, <<"T1", "Alpha", "C1", "Zed", "Beginner">>>>}
OverlapResultsTexts ==
    {<<ResultsHeader, <<"1", "2025-01-01", "b1", "C1", "1", "2", "1", "1">>,
                      <<"2", "2025-02-01", "b1", "C1", "1", "1", "1", "1">>>>,
     <<ResultsHeader, <<"1", "2025-01-01", "b1", "C1", "1", "3", "1", "1">>>>}

\* a call of loadAllData with its two fetches under way, and which method
\* called the initialize() that awaits it
OverlapLoad(caller) ==
    [teams |-> Pending, results |-> Pending, outcome |-> "pending", caller |-> caller]

\* how a loadCsv call may end here: with one of the texts, the fetch of
\* teams.csv also with an error (SpecLoad follows the failures of both files)
OverlapResponses(which) ==
    (IF which = "teams" THEN {Rejected} ELSE {}) \cup {Fulfilled(text) :
                        text \in IF which = "teams" THEN OverlapTeamsTexts
                                 ELSE OverlapResultsTexts}

\* the page after DOMContentLoaded with the load of initialize() under way,
\* or the page after that load has failed on a fetch
InitOverlap ==
    /\ pc = "overlap"
    /\ InitAppState
    /\ NoPoints /\ NoSort
    /\ tables = [t \in TableIds |-> <<>>]
    /\ rendered = [t \in TableIds |-> <<>>]
    /\ sortClass = [t \in TableIds |-> Null]
    /\ sortState = NoSortState
    /\ sortingInitialized = [t \in TableIds |-> FALSE]
    /\ inflight = 0
    /\ \/ loads = <<OverlapLoad("DOMContentLoaded")>> /\ errorDisplay = NoError
       \/ /\ loads = <<>>
          /\ errorDisplay = Shown([error |-> "Unable to load", dataset |-> "teams"])
    /\ NoHeap

\* a fetch of a load ends while other loads may be under way
OverlapFetchSettles ==
    /\ pc = "overlap"
    /\ \E l \in 1..Len(loads), which \in {"teams", "results"} :
          /\ loads[l][which].st = "pending"
          /\ \E response \in OverlapResponses(which) :
                \E after \in {[loads[l] EXCEPT ![which] = response]} :
                   IF /\ promiseAll(loads[l].teams, loads[l].results) = "pending"
                      /\ promiseAll(after.teams, after.results) # "pending"
                   THEN LoadSettles(l, which, after)
                   ELSE /\ loads' = [loads EXCEPT ![l] = after]
                        /\ UNCHANGED <<appVars, errorDisplay, tables, rendered,
                                       sortingInitialized>>
    /\ UNCHANGED <<pc, sortClass, sortState, inflight, heapVars, pointVars, sortVars>>

\* a clearState() that empties rawTeams and leaves rawResults
OverlapReloadKeepsResults ==
    /\ pc = "overlap" /\ Len(loads) < MaxOverlapLoads
    /\ rawTeams' = <<>>
    /\ UNCHANGED rawResults
    /\ climberStats' = <<>>
    /\ teamStats' = <<>>
    /\ divisionStats' = EmptyMap
    /\ funStats' = EmptyObject
    /\ currentFilter' = "all"
    /\ sortState' = NoSortState
    /\ errorDisplay' = NoError
    /\ loads' = Append(loads, OverlapLoad("refresh"))
    /\ UNCHANGED <<pc, threw, tables, rendered, sortClass, sortingInitialized,
                   inflight, heapVars, pointVars, sortVars>>

\* the reload button, also while loads are under way: refresh() runs
\* clearState(), then initialize() hides the error display and awaits a new
\* loadAllData
OverlapReload ==
    /\ pc = "overlap" /\ Len(loads) < MaxOverlapLoads
    /\ rawTeams' = <<>>
    /\ rawResults' = <<>>
    /\ climberStats' = <<>>
    /\ teamStats' = <<>>
    /\ divisionStats' = EmptyMap
    /\ funStats' = EmptyObject
    /\ currentFilter' = "all"
    /\ sortState' = NoSortState
    /\ errorDisplay' = NoError
    /\ loads' = Append(loads, OverlapLoad("refresh"))
    /\ UNCHANGED <<pc, threw, tables, rendered, sortClass, sortingInitialized,
                   inflight, heapVars, pointVars, sortVars>>

\* AppState.applyFilter(compId), also while loads are under way
OverlapApplyFilter ==
    /\ pc = "overlap"
    /\ \E compId \in {"all", "1"} :
          /\ currentFilter' = compId
          /\ computeAndRender(rawTeams, rawResults, compId)
    /\ UNCHANGED <<pc, rawTeams, rawResults, sortClass, sortState, inflight,
                   loadVars, heapVars, pointVars, sortVars>>

SpecOverlap ==
    InitOverlap /\ [][OverlapFetchSettles \/ OverlapReload \/ OverlapApplyFilter]_vars

\* the rows a load stores when its two fetches have both ended well
DataOfLoad(l) == parseBoth(loads[l].teams.text, loads[l].results.text)

\* C28: while loads overlap, with the reload button pressed again or a filter
\* applied during a load, rawTeams and rawResults are both empty or are the
\* teams and the results of one and the same load
C28_RawDataOfOneLoad ==
    pc = "overlap" =>
        \/ rawTeams = <<>> /\ rawResults = <<>>
        \/ \E l \in 1..Len(loads) :
              /\ loads[l].outcome = "computed"
              /\ rawTeams = DataOfLoad(l).teams
              /\ rawResults = DataOfLoad(l).results

\* the load started last has stored its data while the load started before it
\* still awaits a fetch, the two were served different texts, and a filter
\* has been applied
C28_Witness ==
    /\ pc = "overlap" /\ Len(loads) = 2
    /\ loads[2].outcome = "computed"
    /\ loads[1].outcome = "pending"
    /\ loads[1].teams.st = "fulfilled"
    /\ loads[1].teams # loads[2].teams
    /\ rawTeams = DataOfLoad(2).teams
    /\ currentFilter = "1"

\* C29: when two refreshes overlap and the loads of both succeed, then once
\* both have completed the raw data and the cache are those of the load that
\* was started last, in whichever order the two completed
C29_LastStartedLoadWins ==
    (/\ pc = "overlap" /\ Len(loads) = 2
     /\ loads[1].caller = "refresh" /\ loads[2].caller = "refresh"
     /\ loads[1].outcome = "computed" /\ loads[2].outcome = "computed") =>
        /\ rawTeams = DataOfLoad(2).teams
        /\ rawResults = DataOfLoad(2).results
        /\ climberStats =
              pipeline(DataOfLoad(2).teams, DataOfLoad(2).results, currentFilter).climberStats
        /\ teamStats =
              pipeline(DataOfLoad(2).teams, DataOfLoad(2).results, currentFilter).teamStats

\* ---------------------------------------------------------------------------
\* Failed loads
\* ---------------------------------------------------------------------------

\* AppState as the constructor and clearState() leave it
ClearedState ==
    /\ rawTeams = <<>>
    /\ rawResults = <<>>
    /\ currentFilter = "all"
    /\ climberStats = <<>>
    /\ teamStats = <<>>
    /\ divisionStats = EmptyMap
    /\ funStats = EmptyObject

\* the load l fails in this step: a fetch is rejected, or both texts have
\* arrived and one is empty or lacks a required column
LoadFailsNow(l) ==
    /\ l \in 1..Len(loads)
    /\ loads[l].outcome = "pending"
    /\ loads'[l].outcome = "failed"

\* C30: when the load inside initialize fails (a fetch error, an empty file, a
\* missing column), initialize catches the error and shows it, and the step
\* changes none of rawTeams, rawResults, currentFilter, climberStats,
\* teamStats, divisionStats and funStats nor the tables: they stay as they
\* were just before the failure.  That is the state in which the load started
\* (for a refresh the cleared state, which the step that starts the load of
\* a refresh leaves) whenever no other load stored its data while this one
\* was under way; the behaviours of SpecLoad apply no filter during a load,
\* which would change currentFilter and the caches in the same way.
C30_FailedLoadChangesNothing ==
    [][/\ Len(loads') > Len(loads) => ClearedState'
       /\ \A l \in 1..Len(loads) :
          LoadFailsNow(l) =>
             /\ UNCHANGED <<rawTeams, rawResults, currentFilter, climberStats,
                            teamStats, divisionStats, funStats, threw, tables,
                            rendered>>
             /\ errorDisplay'.kind = "shown"
             /\ errorDisplay'.prefix = "Initialization failed"
             /\ errorDisplay'.error.error \in
                   {"Unable to load", "Error parsing teams data",
                    "Error parsing results data"}
             /\ (\A k \in 1..Len(loads) : k # l => loads[k].outcome # "computed")
                   => ClearedState']_vars

\* the reloaded teams file was empty and the load of the refresh failed with
\* the first load still awaiting a fetch: the error is shown over the state
\* that clearState left
C30_Witness ==
    /\ pc = "load" /\ Len(loads) = 2
    /\ loads[2].outcome = "failed"
    /\ loads[2].teams = Fulfilled(<<>>)
    /\ loads[2].results.st = "fulfilled"
    /\ loads[1].outcome = "pending"
    /\ errorDisplay.kind = "shown"
    /\ errorDisplay.error.error = "Error parsing teams data"
    /\ ClearedState

\* C30 as stated: after a load has failed the data, the filter and the caches
\* are as they were when that load started, the initial state for the load
\* of DOMContentLoaded and the cleared state for the load of a refresh
C30_AsBeforeLoadStarted ==
    [][\A l \in 1..Len(loads) : LoadFailsNow(l) => ClearedState']_vars

====
